---- MODULE Spec2Model ----
(***************************************************************************)
(* Yuki AI: the command routing core (CommandProcessor), the fallback      *)
(* responder (LLMEngine) and the domain handlers they dispatch to.         *)
(*                                                                         *)
(* Text is a sequence of symbols.  A symbol is a TLA+ string standing for  *)
(* one character or one indivisible run of characters of the source's      *)
(* vocabulary; Thai runs are romanised (the source text is given in the    *)
(* comment next to each phrase).  Phrases that contain one another in the  *)
(* source ("ค้นหา" contains "หา", "website" contains "site") are split so  *)
(* that the containment is kept.                                           *)
(***************************************************************************)
EXTENDS Integers, Sequences, FiniteSets, TLC

VARIABLES
    commands,               \* CommandProcessor.commands: ordered pattern table
    call_count,             \* CommandProcessor.call_count
    context_window,         \* LLMEngine.context_window
    use_cloud_api,          \* LLMEngine.use_cloud_api
    openai_api_key,         \* LLMEngine.openai_api_key is set (truthy)
    conversation_history,   \* LLMEngine.conversation_history
    last,                   \* observation of the last completed call
    config,                 \* Config._config of the global config instance
    config_file,            \* contents of the YAML file at Config.config_path
    app_commands,           \* the AppCommands instance held by a caller
    enable_llm,             \* LLMEngine.enable_llm
    yuki_call_count_json,   \* test.py: contents of yuki_call_count.json
    spoken                  \* test.py: the calls main() has answered aloud

\* the configuration store, the application table built on it and the
\* switch read from it
admin == <<config, config_file, app_commands, enable_llm>>

\* the state of the earlier single-file assistant (test.py)
legacy == <<yuki_call_count_json, spoken>>

vars == <<commands, call_count, context_window, use_cloud_api,
          openai_api_key, conversation_history, last, admin, legacy>>

----------------------------------------------------------------------------
(* Bounds *)

MaxCalls == 6       \* bare wake calls followed in one session
MaxWindow == 1      \* largest configured context_window
MaxHistory == 2     \* history length up to which backend calls are followed
MaxChunks == 3      \* pieces a text given to the text helpers is made of

----------------------------------------------------------------------------
(* Config (utils/config.py) and the application table of AppCommands *)

\* dotted keys, as the list of their segments; every prefix of a key is a key
Keys ==
    { <<"applications">>, <<"applications", "app">>,
      <<"voice">>, <<"voice", "language">>, <<"voice", "wake_word">>,
      <<"non">>, <<"non", "existent">> }

\* applications.<app_name>
AppKey == <<"applications", "app">>

\* what a key stores: "absent" when its parent has no such entry, "dict" for
\* a mapping, "none" for None, any other string for a scalar
ScalarValues == {"p", "none"}

\* _get_default_config, restricted to Keys
default_config ==
    [k \in Keys |->
        CASE k = <<"applications">> -> "dict"
          [] k = <<"voice">> -> "dict"
          [] k = <<"voice", "language">> -> "th-TH"
          [] k = <<"voice", "wake_word">> -> "yuki_th"
          [] OTHER -> "absent"]

\* a configuration file written without the applications section
config_without_applications ==
    [default_config EXCEPT ![<<"applications">>] = "absent"]

IsProperPrefix(p, k) == Len(p) < Len(k) /\ SubSeq(k, 1, Len(p)) = p

\* the object stored under a key: a scalar, or a mapping with its entries
Value(cfg, key) ==
    [val |-> cfg[key],
     items |-> { <<k, cfg[k]>> :
                   k \in { k2 \in Keys : /\ IsProperPrefix(key, k2)
                                         /\ cfg[k2] # "absent" } }]

Scalar(v) == [val |-> v, items |-> {}]
EmptyDict == [val |-> "dict", items |-> {}]
Defaults == { Scalar("none"), Scalar("fallback"), EmptyDict }

\* Config.get that takes a stored None for a missing value
Config_get_NoneIsMissing(cfg, key, default) ==
    IF \A n \in 1..Len(key) :
          /\ (n > 1 => cfg[SubSeq(key, 1, n - 1)] = "dict")
          /\ cfg[SubSeq(key, 1, n)] \notin {"absent", "none"}
    THEN Value(cfg, key)
    ELSE default

\* Config.get: walk the segments; the default as soon as the value at hand is
\* not a mapping or lacks the segment
Config_get(cfg, key, default) ==
    IF \A n \in 1..Len(key) :
          /\ (n > 1 => cfg[SubSeq(key, 1, n - 1)] = "dict")
          /\ cfg[SubSeq(key, 1, n)] # "absent"
    THEN Value(cfg, key)
    ELSE default

\* Config.set before save_config: missing intermediate mappings are created,
\* the last segment is assigned; assigning into a scalar raises TypeError
Config_set(cfg, key, v) ==
    IF Len(key) = 1
    THEN [raised |-> FALSE,
          config |-> [k \in Keys |->
                        IF k = key THEN v
                        ELSE IF IsProperPrefix(key, k) THEN "absent"
                        ELSE cfg[k]]]
    ELSE LET parent == SubSeq(key, 1, Len(key) - 1)
         IN  IF cfg[parent] \in {"absent", "dict"}
             THEN [raised |-> FALSE,
                   config |-> [cfg EXCEPT ![parent] = "dict", ![key] = v]]
             ELSE [raised |-> TRUE, config |-> cfg]

\* save_config: the file takes the configuration, or the exception of the
\* write is printed and the file keeps what it had
SaveOutcomes == {"ok", "error"}
save_config(cfg, file, outcome) == IF outcome = "ok" THEN cfg ELSE file

\* AppCommands.__init__: self.applications is what config.get_applications
\* returns: the mapping stored in the configuration itself, or a fresh {}
\* when there is no applications section
AppCommands_init(cfg) ==
    IF cfg[<<"applications">>] = "dict"
    THEN [built |-> TRUE, shares_config |-> TRUE, own |-> "absent"]
    ELSE [built |-> TRUE, shares_config |-> FALSE, own |-> "absent"]

NoInstance == [built |-> FALSE, shares_config |-> FALSE, own |-> "absent"]

\* self.applications.get(app_name) of an instance
Table(inst, cfg) == IF inst.shares_config THEN cfg[AppKey] ELSE inst.own

\* self.applications[app_name] = v, or del self.applications[app_name] for
\* v = "absent"
Assign(inst, cfg, v) ==
    IF inst.shares_config
    THEN [inst |-> inst, config |-> [cfg EXCEPT ![AppKey] = v]]
    ELSE [inst |-> [inst EXCEPT !.own = v], config |-> cfg]

\* AppCommands.list_available_apps
list_available_apps(inst, cfg) ==
    IF Table(inst, cfg) # "absent" THEN {"app"} ELSE {}

\* the configuration right after the module is imported
ConfigLoaded ==
    /\ config = default_config
    /\ config_file = default_config
    /\ app_commands = NoInstance

\* test.py before its first run: no counter file, nothing said
CounterFileAbsent ==
    /\ yuki_call_count_json = <<>>
    /\ spoken = <<>>

----------------------------------------------------------------------------
(* Text primitives (Python str semantics on symbol sequences) *)

SP == " "
TAB == "\t"
Whitespace == {SP, TAB}

\* str.lower(): the only cased symbols of the model are the upper-case
\* spellings below; Thai has no case.
LowerSym(c) ==
    CASE c = "YUKI" -> "yuki"
      [] c = "SEARCH" -> "search"
      [] c = "HELLO" -> "hello"
      [] OTHER -> c

Lower(s) == [i \in 1..Len(s) |-> LowerSym(s[i])]

\* s[i:] (1-based i)
From(s, i) == SubSeq(s, i, Len(s))

\* sub occurs in s at position i
MatchAt(s, sub, i) ==
    /\ i >= 1
    /\ i + Len(sub) - 1 <= Len(s)
    /\ \A k \in 1..Len(sub) : s[i + k - 1] = sub[k]

\* sub in s
Contains(s, sub) == \E i \in 1..(Len(s) + 1) : MatchAt(s, sub, i)

\* s.startswith(sub)
StartsWith(s, sub) == MatchAt(s, sub, 1)

\* s.find(sub), 0 when absent (1-based otherwise)
Find(s, sub) ==
    IF Contains(s, sub)
    THEN CHOOSE i \in 1..(Len(s) + 1) :
            /\ MatchAt(s, sub, i)
            /\ \A j \in 1..(i - 1) : ~MatchAt(s, sub, j)
    ELSE 0

RECURSIVE LStrip(_)
LStrip(s) ==
    IF s # <<>> /\ Head(s) \in Whitespace THEN LStrip(Tail(s)) ELSE s

RECURSIVE RStrip(_)
RStrip(s) ==
    IF s # <<>> /\ s[Len(s)] \in Whitespace
    THEN RStrip(SubSeq(s, 1, Len(s) - 1))
    ELSE s

\* strip that removes the leading whitespace only
Strip_LeftOnly(s) == LStrip(s)

\* str.strip()
Strip(s) == LStrip(RStrip(s))

\* re.sub(r'\s+', ' ', s)
RECURSIVE CollapseWhitespace(_)
CollapseWhitespace(s) ==
    IF s = <<>> THEN <<>>
    ELSE IF Head(s) \in Whitespace
         THEN <<SP>> \o CollapseWhitespace(LStrip(s))
         ELSE <<Head(s)>> \o CollapseWhitespace(Tail(s))

\* str.replace(old, new): every non-overlapping occurrence, left to right
\* (old is never empty here)
RECURSIVE Replace(_, _, _)
Replace(s, old, new) ==
    IF s = <<>> THEN <<>>
    ELSE IF MatchAt(s, old, 1)
         THEN new \o Replace(From(s, Len(old) + 1), old, new)
         ELSE <<Head(s)>> \o Replace(Tail(s), old, new)

----------------------------------------------------------------------------
(* utils/helpers.py *)

\* clean_text that merges pairs of spaces once instead of whole runs
clean_text_PairsOnly(text) ==
    IF text = <<>> THEN <<>>
    ELSE Replace(Strip(Lower(text)), <<SP, SP>>, <<SP>>)

\* clean_text
clean_text(text) ==
    IF text = <<>> THEN <<>>
    ELSE CollapseWhitespace(Strip(Lower(text)))

\* The replacement table of process_thai_text, in dict order:
\*   "ผม" -> "ฉันเองก็", "ครับ" -> "ค่ะ", "ผมจะ" -> "ฉันจะ", "ผมอยาก" -> "ฉันอยาก"
\* written character by character, so that a phrase put together from
\* pieces of the input and of a replacement is seen:
\*   ผ "ph", ม "m", ค "kh", ร "r", ั "han", บ "b", ฉ "ch", น "n", เ "e",
\*   อ "o", ง "ng", ก "k", ็ "taikhu", ่ "ek", ะ "a", จ "c", ย "y", า "aa"
replacements ==
    << [old |-> <<"ph", "m">>,
        new |-> <<"ch", "han", "n", "e", "o", "ng", "k", "taikhu">>],
       [old |-> <<"kh", "r", "han", "b">>,
        new |-> <<"kh", "ek", "a">>],
       [old |-> <<"ph", "m", "c", "a">>,
        new |-> <<"ch", "han", "n", "c", "a">>],
       [old |-> <<"ph", "m", "o", "y", "aa", "k">>,
        new |-> <<"ch", "han", "n", "o", "y", "aa", "k">>] >>

RECURSIVE ApplyReplacements(_, _)
ApplyReplacements(text, i) ==
    IF i > Len(replacements) THEN text
    ELSE ApplyReplacements(
            Replace(text, replacements[i].old, replacements[i].new), i + 1)

\* process_thai_text with the pronoun replacement only
process_thai_text_PronounOnly(text) ==
    IF text = <<>> THEN <<>>
    ELSE Replace(text, replacements[1].old, replacements[1].new)

\* process_thai_text
process_thai_text(text) ==
    IF text = <<>> THEN <<>> ELSE ApplyReplacements(text, 1)

\* extract_query_from_command: the first trigger of the list contained in
\* the lowered command is removed (every occurrence: str.replace) and the
\* rest is stripped; "" when no trigger is contained.
RECURSIVE ExtractFrom(_, _, _)
ExtractFrom(command_lower, trigger_words, i) ==
    IF i > Len(trigger_words) THEN <<>>
    ELSE IF Contains(command_lower, trigger_words[i])
         THEN Strip(Replace(command_lower, trigger_words[i], <<>>))
         ELSE ExtractFrom(command_lower, trigger_words, i + 1)

extract_query_from_command(command, trigger_words) ==
    ExtractFrom(Lower(command), trigger_words, 1)

\* any(trigger in text for trigger in triggers)
AnyIn(text, triggers) ==
    \E i \in 1..Len(triggers) : Contains(text, triggers[i])

----------------------------------------------------------------------------
(* CommandProcessor: wake-word gate *)

\* voice.wake_word and voice.alternative_wake_words of the default
\* configuration: 'ยูกิ' and ['yuki', 'ยูกิ']
wake_word == <<"yuki_th">>
alternative_wake_words == << <<"yuki">>, <<"yuki_th">> >>
wake_words == <<wake_word>> \o alternative_wake_words

\* _is_wake_word_call
is_wake_word_call(text) ==
    \E i \in 1..Len(wake_words) : Lower(Strip(text)) = Lower(wake_words[i])

\* starts_with_wake_word that knows the primary wake word only
starts_with_wake_word_PrimaryOnly(text) ==
    StartsWith(Lower(text), Lower(wake_word))

\* _starts_with_wake_word
starts_with_wake_word(text) ==
    \E i \in 1..Len(wake_words) : StartsWith(Lower(text), Lower(wake_words[i]))

\* _extract_command
RECURSIVE ExtractCommandFrom(_, _)
ExtractCommandFrom(text, i) ==
    IF i > Len(wake_words) THEN text
    ELSE IF StartsWith(Lower(text), Lower(wake_words[i]))
         THEN Strip(From(text, Len(wake_words[i]) + 1))
         ELSE ExtractCommandFrom(text, i + 1)

\* extract_command that leaves the whitespace after the wake word
extract_command_NoStrip(text) ==
    IF \E i \in 1..Len(wake_words) : StartsWith(Lower(text), Lower(wake_words[i]))
    THEN From(text, 1 + Len(wake_words[
              CHOOSE i \in 1..Len(wake_words) :
                 /\ StartsWith(Lower(text), Lower(wake_words[i]))
                 /\ \A j \in 1..(i - 1) :
                       ~StartsWith(Lower(text), Lower(wake_words[j]))]))
    ELSE text

extract_command(text) == ExtractCommandFrom(text, 1)

\* The replies of _handle_wake_word_call, in list order:
\*   "ค่ะ ยูกิอยู่นี่ค่ะ", "เรียกใช้ยูกิได้เลยค่ะ", "ยูกิพร้อมช่วยเหลือค่ะ",
\*   "นี่!! ตั้งใจแกล้งกันรึป่าวคะ?", "แบบนี้แกล้งกันชัด ๆ เลย!!!"
wake_responses ==
    << <<"kha", SP, "yuki_th", "yu_ni", "kha">>,
       <<"riak_chai", "yuki_th", "dai_loei", "kha">>,
       <<"yuki_th", "phrom", "chuai", "luea", "kha">>,
       <<"ni!!", SP, "tangchai_klaeng_kan_rue_pao_kha?">>,
       <<"baep_ni_klaeng_kan_chat", SP, "maiyamok", SP, "loei!!!">> >>

\* "ถ้าไม่อยากคุยกับยูกิแล้วให้พูดว่า 'ยูกิ shutdown' นะคะ
\*  มาเรียกแล้วไม่พูดแบบนี้ยูกิก็เสียใจ"
wake_scolding ==
    <<"tha_mai_yak_khui_kap", "yuki_th", "laeo_hai_phut_wa", SP, "'",
      "yuki_th", SP, "shut", "down", "'", SP, "na_kha", SP,
      "ma_riak_laeo_mai_phut_baep_ni", "yuki_th", "ko_siachai">>

\* wake_reply with the comparison off by one: the last acknowledgement is
\* never given
wake_reply_OffByOne(n) ==
    IF n < Len(wake_responses) THEN wake_responses[n] ELSE wake_scolding

\* the reply of _handle_wake_word_call once call_count has been incremented to n
wake_reply(n) ==
    IF n <= Len(wake_responses) THEN wake_responses[n] ELSE wake_scolding

----------------------------------------------------------------------------
(* CommandProcessor: pattern table and response templates *)

\* _get_default_commands, in dict order:
\*   "กี่โมงแล้ว", "ตอนนี้เวลาเท่าไหร่", "เวลาตอนนี้คือ" -> time
\*   "สวัสดี", "สวัสดียูกิ", "ยูกิสวัสดี", "หวัดดี", "hello", "hi" -> greeting
\*   "ชื่ออะไร", "คุณชื่ออะไร", "เธอชื่ออะไร", "คุณคือใคร", "เธอคือใคร" -> name
\*   "อากาศวันนี้เป็นอย่างไร" -> weather;  "shutdown", "shut down" -> shutdown
get_default_commands ==
    << [pattern |-> <<"kimonglaeo">>,                 action |-> "time"],
       [pattern |-> <<"tonni_wela_thaorai">>,         action |-> "time"],
       [pattern |-> <<"wela_tonni_khue">>,            action |-> "time"],
       [pattern |-> <<"sawatdi">>,                    action |-> "greeting"],
       [pattern |-> <<"sawatdi", "yuki_th">>,         action |-> "greeting"],
       [pattern |-> <<"yuki_th", "sawatdi">>,         action |-> "greeting"],
       [pattern |-> <<"watdi">>,                      action |-> "greeting"],
       [pattern |-> <<"hello">>,                      action |-> "greeting"],
       [pattern |-> <<"hi">>,                         action |-> "greeting"],
       [pattern |-> <<"chue", "arai">>,               action |-> "name"],
       [pattern |-> <<"khun", "chue", "arai">>,       action |-> "name"],
       [pattern |-> <<"thoe", "chue", "arai">>,       action |-> "name"],
       [pattern |-> <<"khun", "khue_khrai">>,         action |-> "name"],
       [pattern |-> <<"thoe", "khue_khrai">>,         action |-> "name"],
       [pattern |-> <<"akat_wanni_pen_yangrai">>,     action |-> "weather"],
       [pattern |-> <<"shut", "down">>,               action |-> "shutdown"],
       [pattern |-> <<"shut", SP, "down">>,           action |-> "shutdown"] >>

\* A table as _load_commands builds it from a commands file (flattened, in
\* file order): web actions, an action tag without URL, a tag that is not
\* built in, and two entries that match the same command.
file_commands ==
    << [pattern |-> <<"youtube">>,                    action |-> "open_youtube"],
       [pattern |-> <<"maps">>,                       action |-> "open_maps"],
       [pattern |-> <<"kimonglaeo">>,                 action |-> "time"],
       [pattern |-> <<"kimong">>,                     action |-> "khit_du_kon"],
       [pattern |-> <<"akat_wanni_pen_yangrai">>,     action |-> "weather"],
       [pattern |-> <<"shut", "down">>,               action |-> "shutdown"] >>

CommandTables == {get_default_commands, file_commands}

\* _get_default_responses
get_default_responses ==
    [greeting        |-> <<"sawatdi", "kha", SP, "mi_arai_hai_chuai_mai_kha?">>,
     name            |-> <<"chan_khue_phuchuai_atchariya_khong_khun_kha">>,
     unknown_command |-> <<"khothot_kha", SP, "chan_mai_khaochai_thi_khun_phut">>,
     no_command      |-> <<"karuna_phut_khamsang_thi_tongkan_kha">>,
     no_query        |-> <<"karuna_rabu_sing_thi_tongkan_khonha_kha">>,
     error           |-> <<"koet_khophitphlat_nai_kan_pramuanphon_khamsang_kha">>]

\* _get_response: the template, else "ขอโทษค่ะ ฉันไม่เข้าใจที่คุณพูด"
get_response(response_type) ==
    IF response_type \in DOMAIN get_default_responses
    THEN get_default_responses[response_type]
    ELSE <<"khothot_kha", SP, "chan_mai_khaochai_thi_khun_phut">>

\* re.search(pattern, command_lower, re.IGNORECASE) for a literal pattern
pattern_matches(pattern, command_lower) ==
    Contains(Lower(command_lower), Lower(pattern))

\* first_match that keeps the last matching entry instead of the first
first_match_Last(table, command_lower) ==
    IF \E i \in 1..Len(table) : pattern_matches(table[i].pattern, command_lower)
    THEN CHOOSE i \in 1..Len(table) :
            /\ pattern_matches(table[i].pattern, command_lower)
            /\ \A j \in (i + 1)..Len(table) :
                  ~pattern_matches(table[j].pattern, command_lower)
    ELSE 0

\* index of the first entry of the table whose pattern matches, 0 if none
\* (the for loop of _execute_command returns at the first match)
first_match(table, command_lower) ==
    IF \E i \in 1..Len(table) : pattern_matches(table[i].pattern, command_lower)
    THEN CHOOSE i \in 1..Len(table) :
            /\ pattern_matches(table[i].pattern, command_lower)
            /\ \A j \in 1..(i - 1) :
                  ~pattern_matches(table[j].pattern, command_lower)
    ELSE 0

----------------------------------------------------------------------------
(* Outcomes of the external collaborators during one call *)

\* browser    webbrowser.open: "ok" or "raise"
\* speak      voice_engine.speak: "ok" or "raise"
\* weather    _get_weather: "nokey" (no API key), "ok", "error" (urlopen fails)
\* probe      _check_ollama_available
\* exists     os.path.exists of the configured application path
\* alt_exists an application bundle or a well-known install path exists
\* popen      subprocess.Popen / subprocess.run: "ok" or "raise"
\* platform   "macos", "windows" or "linux"
\* playonyt   pywhatkit.playonyt: "ok" or "raise"
\* chat       POST to the backend that is tried: "ok" (status 200 with a
\*            well-formed body), "malformed" (status 200, body without the
\*            expected keys), "non200", "exception" (connection error, timeout)
\* reply      the assistant text of an "ok" answer
BackendReplies == { <<"dai_kha">>, <<"shut", "down">> }
ChatOutcomes == {"ok", "malformed", "non200", "exception"}

Quiet ==
    [browser |-> "ok", speak |-> "ok", weather |-> "nokey", probe |-> FALSE,
     chat |-> "exception", reply |-> <<"dai_kha">>,
     exists |-> FALSE, alt_exists |-> FALSE, popen |-> "ok",
     platform |-> "linux", playonyt |-> "ok"]

\* a call's outcome: returned string (or raised exception), side effects in
\* order, and the routing stages that ran
Returned(result, effects) ==
    [status |-> "returned", result |-> result, effects |-> effects]
Raised(effects) ==
    [status |-> "raised", result |-> <<>>, effects |-> effects]

Effect(kind, arg) == [kind |-> kind, arg |-> arg]

\* a call to webbrowser.open(url) inside a try block that answers `apology`
\* on any exception
TryOpen(url, done, apology, env) ==
    IF env.browser = "ok"
    THEN Returned(done, <<Effect("open_url", url)>>)
    ELSE Returned(apology, <<Effect("open_url_failed", url)>>)

----------------------------------------------------------------------------
(* LLMEngine *)

Msg(role, content) == [role |-> role, content |-> content]

\* Python s[-n:] (n = 0 gives s[0:], the whole list)
PyLast(s, n) ==
    IF n = 0 THEN s
    ELSE IF n > 0
         THEN (IF n >= Len(s) THEN s ELSE SubSeq(s, Len(s) - n + 1, Len(s)))
         ELSE From(s, (0 - n) + 1)

system_prompt == <<"You_are_Yuki">>

\* _build_messages that puts the persona after the history
build_messages_PromptAfterHistory(user_input, context) ==
    PyLast(conversation_history, context_window)
    \o <<Msg("system", system_prompt)>>
    \o (IF context # <<>>
        THEN <<Msg("system", <<"Context: ">> \o context)>> ELSE <<>>)
    \o <<Msg("user", user_input)>>

\* _build_messages
build_messages(user_input, context) ==
    <<Msg("system", system_prompt)>>
    \o (IF context # <<>>
        THEN <<Msg("system", <<"Context: ">> \o context)>> ELSE <<>>)
    \o PyLast(conversation_history, context_window)
    \o <<Msg("user", user_input)>>

\* update_history with the two messages appended in the wrong order
update_history_AssistantFirst(user_input, assistant_response) ==
    LET appended == conversation_history
                    \o <<Msg("assistant", assistant_response),
                         Msg("user", user_input)>>
    IN  IF Len(appended) > context_window * 2
        THEN PyLast(appended, context_window * 2)
        ELSE appended

\* _update_history: the value of conversation_history afterwards
update_history(user_input, assistant_response) ==
    LET appended == conversation_history
                    \o <<Msg("user", user_input),
                         Msg("assistant", assistant_response)>>
    IN  IF Len(appended) > context_window * 2
        THEN PyLast(appended, context_window * 2)
        ELSE appended

\* what a call of the engine yields: the returned string, the new history,
\* the backend contacted ("none" when no chat request was sent) and the
\* message list sent to it
Answer(result, history, backend, messages) ==
    [status |-> "returned", result |-> result, effects |-> <<>>,
     history |-> history, backend |-> backend, messages |-> messages]

\* generate_ollama_response that records the exchange whatever the status
generate_ollama_response_RecordsFailure(user_input, context, env) ==
    LET messages == build_messages(user_input, context)
        apology == <<"kho_aphai_kha", SP, "koet_khophitphlat_khamtop">>
    IN  CASE env.chat = "ok" ->
                Answer(env.reply, update_history(user_input, env.reply),
                       "ollama", messages)
          [] env.chat = "non200" ->
                Answer(apology, update_history(user_input, apology),
                       "ollama", messages)
          [] OTHER ->
                Answer(<<"kho_aphai_kha", SP, "mai_samat_chueamto_kap", SP,
                         "ollama", SP, "dai">>,
                       conversation_history, "ollama", messages)

\* _generate_ollama_response
\*   "ขออภัยค่ะ เกิดข้อผิดพลาดในการประมวลผลคำตอบ" on a non-200 status,
\*   "ขออภัยค่ะ ไม่สามารถเชื่อมต่อกับ Ollama ได้" on an exception
generate_ollama_response(user_input, context, env) ==
    LET messages == build_messages(user_input, context)
    IN  CASE env.chat = "ok" ->
                Answer(env.reply, update_history(user_input, env.reply),
                       "ollama", messages)
          [] env.chat = "non200" ->
                Answer(<<"kho_aphai_kha", SP, "koet_khophitphlat_khamtop">>,
                       conversation_history, "ollama", messages)
          [] OTHER ->
                Answer(<<"kho_aphai_kha", SP, "mai_samat_chueamto_kap", SP,
                         "ollama", SP, "dai">>,
                       conversation_history, "ollama", messages)

\* _generate_cloud_response
\*   "ขออภัยค่ะ เกิดข้อผิดพลาดในการประมวลผลคำตอบ" on a non-200 status,
\*   "ขออภัยค่ะ ไม่สามารถเชื่อมต่อกับ cloud API ได้" on an exception
generate_cloud_response(user_input, context, env) ==
    LET messages == build_messages(user_input, context)
    IN  CASE env.chat = "ok" ->
                Answer(env.reply, update_history(user_input, env.reply),
                       "cloud", messages)
          [] env.chat = "non200" ->
                Answer(<<"kho_aphai_kha", SP, "koet_khophitphlat_khamtop">>,
                       conversation_history, "cloud", messages)
          [] OTHER ->
                Answer(<<"kho_aphai_kha", SP, "mai_samat_chueamto_kap", SP,
                         "cloud", SP, "api", SP, "dai">>,
                       conversation_history, "cloud", messages)

\* The keyword groups of _generate_fallback_response, in the order of the
\* if/elif chain, with their canned responses:
\*   ["สวัสดี", "hello", "hi"], ["ชื่อ", "name", "คุณคือใคร"],
\*   ["ช่วย", "help", "ช่วยเหลือ"], ["ขอบคุณ", "thank", "thanks"],
\*   ["อาหาร", "food", "กิน", "แนะนำอาหาร"], ["ประเทศไทย", "thailand", "ไทย"]
fallback_groups ==
    << [words |-> << <<"sawatdi">>, <<"hello">>, <<"hi">> >>,
        response |-> <<"sawatdi", "kha", SP, "yuki_th", "yindi_thi_dai_ruchak">>],
       [words |-> << <<"chue">>, <<"name">>, <<"khun", "khue_khrai">> >>,
        response |-> <<"chan", "chue", "yuki_th", "kha", SP, "pen_phuchuai_ai">>],
       [words |-> << <<"chuai">>, <<"help">>, <<"chuai", "luea">> >>,
        response |-> <<"yuki_th", "samat", "chuai", "khun_dai_lai_yang_kha">>],
       [words |-> << <<"khopkhun">>, <<"thank">>, <<"thank", "s">> >>,
        response |-> <<"yindi_kha", SP, "yuki_th", "yindi", "chuai", "luea">>],
       [words |-> << <<"ahan">>, <<"food">>, <<"kin">>, <<"naenam", "ahan">> >>,
        response |-> <<"ahan", "thai", "mi_laklai_lae_aroi_mak_kha">>],
       [words |-> << <<"prathet", "thai">>, <<"thailand">>, <<"thai">> >>,
        response |-> <<"prathet", "thai", "pen_prathet_thi_suai-ngam">>] >>

\* "ขออภัยค่ะ ยูกิยังไม่เข้าใจคำถามนี้ แต่ยูกิสามารถช่วยคุณเปิดแอปพลิเคชัน
\*  เปิดเว็บไซต์ หรือเล่นเพลงได้ค่ะ"
fallback_deflection ==
    <<"kho_aphai_kha", SP, "yuki_th", "yang_mai_khaochai_khamtham_ni", SP,
      "tae", "yuki_th", "samat", "chuai", "khun", "poet", "aep",
      "phlikhechan", SP, "poet", "web_th", "sai", SP, "rue", "len",
      "phleng", "dai_kha">>

\* _generate_fallback_response
generate_fallback_response(user_input) ==
    LET user_input_lower == Lower(user_input)
        hits == {g \in 1..Len(fallback_groups) :
                    AnyIn(user_input_lower, fallback_groups[g].words)}
    IN  IF hits = {} THEN fallback_deflection
        ELSE fallback_groups[CHOOSE g \in hits : \A h \in hits : g <= h].response

\* is_available, with the outcome of the liveness probe it makes
is_available(env) ==
    IF ~enable_llm THEN FALSE
    ELSE IF env.probe THEN TRUE
    ELSE use_cloud_api /\ openai_api_key

\* generate_response
generate_response(user_input, context, env) ==
    IF env.probe
    THEN generate_ollama_response(user_input, context, env)
    ELSE IF use_cloud_api /\ openai_api_key
         THEN generate_cloud_response(user_input, context, env)
         ELSE Answer(generate_fallback_response(user_input),
                     conversation_history, "none", <<>>)

----------------------------------------------------------------------------
(* commands/web_commands.py *)

\* web_services of the default configuration, in dict order
web_services ==
    << [name |-> <<"google">>,    url |-> <<"https://www.", "google", ".com">>],
       [name |-> <<"youtube">>,   url |-> <<"https://www.", "youtube", ".com">>],
       [name |-> <<"facebook">>,  url |-> <<"https://www.", "facebook", ".com">>],
       [name |-> <<"instagram">>, url |-> <<"https://www.", "instagram", ".com">>] >>

\* WebCommands.search_engines
search_engines ==
    [google     |-> <<"https://www.", "google", ".com">>,
     youtube    |-> <<"https://www.", "youtube", ".com">>,
     bing       |-> <<"https://www.", "bing", ".com">>,
     duckduckgo |-> <<"https://", "duckduckgo", ".com">>]

\* "เปิดเว็บ", "open website", "เปิดเว็บไซต์", "open site", "เข้าเว็บ", "เข้าเว็บไซต์"
web_triggers ==
    << <<"poet", "web_th">>, <<"open", SP, "web", "site">>,
       <<"poet", "web_th", "sai">>, <<"open", SP, "site">>,
       <<"khao", "web_th">>, <<"khao", "web_th", "sai">> >>

\* _matches_service: one of the six phrases, a space and the service name
matches_service(command, service_name) ==
    \E i \in 1..Len(web_triggers) :
        Contains(command, web_triggers[i] \o <<SP>> \o service_name)

\* "เปิด {name} แล้วค่ะ"
opened_reply(name) == <<"poet", SP>> \o name \o <<SP, "laeo", "kha">>

\* _open_website
open_website(service_name, url, env) ==
    TryOpen(url, opened_reply(service_name),
            <<"koet_khophitphlat_nai_kan", "poet", SP>> \o service_name
                \o <<SP, "kha">>, env)

\* _is_search_command: "ค้นหา", "search", "เสิร์ช", "หา", "google search",
\* "youtube search", "ค้นหาใน google", "ค้นหาใน youtube"
is_search_command(command) ==
    AnyIn(command,
          << <<"khon", "ha">>, <<"search">>, <<"soet">>, <<"ha">>,
             <<"google", SP, "search">>, <<"youtube", SP, "search">>,
             <<"khon", "ha", "nai", SP, "google">>,
             <<"khon", "ha", "nai", SP, "youtube">> >>)

\* _determine_search_engine
determine_search_engine(command) ==
    IF Contains(Lower(command), <<"youtube">>) THEN "youtube"
    ELSE IF Contains(Lower(command), <<"bing">>) THEN "bing"
    ELSE IF Contains(Lower(command), <<"duckduckgo">>) THEN "duckduckgo"
    ELSE "google"

\* helpers.create_search_url
create_search_url(base_url, query) ==
    IF Contains(base_url, <<"google", ".com">>)
    THEN base_url \o <<"/search?q=">> \o query
    ELSE IF Contains(base_url, <<"youtube", ".com">>)
         THEN base_url \o <<"/results?search_query=">> \o query
         ELSE base_url \o <<"?q=">> \o query

\* the search triggers used for query extraction: "ค้นหา", "search", "เสิร์ช", "หา"
search_triggers == << <<"khon", "ha">>, <<"search">>, <<"soet">>, <<"ha">> >>

\* WebCommands._handle_search
\*   "กรุณาระบุสิ่งที่ต้องการค้นหาค่ะ", "ค้นหา '{query}' ใน {engine} แล้วค่ะ",
\*   "เกิดข้อผิดพลาดในการค้นหาค่ะ"
handle_search(command, env) ==
    LET query == extract_query_from_command(command, search_triggers)
        search_engine == determine_search_engine(command)
    IN  IF query = <<>>
        THEN Returned(<<"karuna_rabu_sing_thi_tongkan_khonha_kha">>, <<>>)
        ELSE TryOpen(create_search_url(search_engines[search_engine], query),
                     <<"khon", "ha", SP, "'">> \o query
                        \o <<"'", SP, "nai", SP, search_engine, SP, "laeo", "kha">>,
                     <<"koet_khophitphlat_nai_kan", "khon", "ha", "kha">>, env)

\* the patterns of _is_website_pattern and _handle_website_pattern:
\* r"เปิดเว็บ (.+)", r"open website (.+)", r"เข้าเว็บ (.+)"
website_patterns ==
    << <<"poet", "web_th", SP>>, <<"open", SP, "web", "site", SP>>,
       <<"khao", "web_th", SP>> >>

\* re.search(prefix + "(.+)", command): the prefix occurs with at least one
\* character after it
website_pattern_matches(prefix, command) ==
    \E i \in 1..Len(command) :
        MatchAt(command, prefix, i) /\ i + Len(prefix) <= Len(command)

\* _is_website_pattern
is_website_pattern(command) ==
    \E p \in 1..Len(website_patterns) :
        website_pattern_matches(website_patterns[p], command)

\* group(1) of the first pattern that matches (leftmost match, greedy to the
\* end of the text), stripped
website_name_of(command) ==
    LET p == CHOOSE q \in 1..Len(website_patterns) :
                /\ website_pattern_matches(website_patterns[q], command)
                /\ \A r \in 1..(q - 1) :
                      ~website_pattern_matches(website_patterns[r], command)
        at == Find(command, website_patterns[p])
    IN  Strip(From(command, at + Len(website_patterns[p])))

\* _construct_website_url
construct_website_url(website_name) ==
    <<"https://">>
    \o Replace(Replace(Replace(website_name, <<".com">>, <<>>),
                       <<".co.th">>, <<>>), <<".org">>, <<>>)
    \o <<".com">>

\* _handle_website_pattern
\*   "กรุณาระบุชื่อเว็บไซต์ที่ต้องการเปิดค่ะ", "เปิดเว็บไซต์ {name} แล้วค่ะ",
\*   "เกิดข้อผิดพลาดในการเปิดเว็บไซต์ {name} ค่ะ"
handle_website_pattern(command, env) ==
    LET website_name ==
            IF is_website_pattern(command) THEN website_name_of(command)
            ELSE <<>>
    IN  IF website_name = <<>>
        THEN Returned(<<"karuna_rabu_chue", "web_th", "sai", "kha">>, <<>>)
        ELSE TryOpen(construct_website_url(website_name),
                     <<"poet", "web_th", "sai", SP>> \o website_name
                        \o <<SP, "laeo", "kha">>,
                     <<"koet_khophitphlat_nai_kan", "poet", "web_th", "sai", SP>>
                        \o website_name \o <<SP, "kha">>, env)

\* WebCommands.process_command
\*   "ไม่เข้าใจคำสั่งเว็บค่ะ กรุณาลองใหม่อีกครั้ง" when nothing applies
web_process_command(command, env) ==
    LET command_lower == Lower(command)
        hits == {i \in 1..Len(web_services) :
                    matches_service(command_lower, web_services[i].name)}
    IN  IF hits # {}
        THEN LET i == CHOOSE j \in hits : \A k \in hits : j <= k
             IN  open_website(web_services[i].name, web_services[i].url, env)
        ELSE IF is_search_command(command_lower)
             THEN handle_search(command, env)
             ELSE IF is_website_pattern(command_lower)
                  THEN handle_website_pattern(command, env)
                  ELSE Returned(<<"mai_khaochai_khamsang", "web_th", "kha">>,
                                <<>>)

----------------------------------------------------------------------------
(* commands/app_commands.py *)

\* the configured name -> path table (config.get_applications()), in order
applications ==
    << [name |-> <<"vs", "code">>, path |-> <<"/usr/bin/", "code">>] >>

\* applications.get(app_name): the path, <<>> when absent
application_path(app_name) ==
    IF \E i \in 1..Len(applications) : applications[i].name = app_name
    THEN applications[CHOOSE i \in 1..Len(applications) :
                         applications[i].name = app_name].path
    ELSE <<>>

\* "เปิดแอป", "open app", "เปิดแอปพลิเคชัน", "open application"
app_triggers ==
    << <<"poet", "aep">>, <<"open", SP, "app">>,
       <<"poet", "aep", "phlikhechan">>, <<"open", SP, "app", "lication">> >>

\* _matches_app: the four phrases with the name and its lowered form, and
\* "เปิด application {name.lower()}"
matches_app(command, app_name) ==
    \/ \E i \in 1..Len(app_triggers) :
          \/ Contains(command, app_triggers[i] \o <<SP>> \o app_name)
          \/ Contains(command, app_triggers[i] \o <<SP>> \o Lower(app_name))
    \/ Contains(command, <<"poet", SP, "app", "lication", SP>> \o Lower(app_name))

\* _try_alternative_open
\*   "ไม่พบ {app_name} ในระบบค่ะ", "ไม่สามารถเปิด {app_name} ได้ค่ะ"
try_alternative_open(app_name, env) ==
    IF env.platform \in {"macos", "windows"} /\ env.alt_exists
    THEN IF env.popen = "ok"
         THEN Returned(opened_reply(app_name), <<Effect("launch", app_name)>>)
         ELSE Returned(<<"mai_samat", "poet", SP>> \o app_name \o <<SP, "dai_kha">>,
                       <<Effect("launch_failed", app_name)>>)
    ELSE Returned(<<"mai_phop", SP>> \o app_name \o <<SP, "nai_rabop_kha">>, <<>>)

\* open_application without the test that the configured path exists
open_application_NoExistsTest(app_name, app_path, env) ==
    IF env.popen = "ok"
    THEN Returned(opened_reply(app_name), <<Effect("launch", app_path)>>)
    ELSE Returned(<<"koet_khophitphlat_nai_kan", "poet", SP>> \o app_name
                     \o <<SP, "kha">>,
                  <<Effect("launch_failed", app_path)>>)

\* _open_application
\*   "เกิดข้อผิดพลาดในการเปิด {app_name} ค่ะ" on an exception
open_application(app_name, app_path, env) ==
    IF env.exists
    THEN IF env.popen = "ok"
         THEN Returned(opened_reply(app_name), <<Effect("launch", app_path)>>)
         ELSE Returned(<<"koet_khophitphlat_nai_kan", "poet", SP>> \o app_name
                          \o <<SP, "kha">>,
                       <<Effect("launch_failed", app_path)>>)
    ELSE try_alternative_open(app_name, env)

\* _get_app_aliases, in dict order
app_aliases ==
    << [alias |-> <<"code">>,               app |-> <<"vs", "code">>],
       [alias |-> <<"editor">>,             app |-> <<"vs", "code">>],
       [alias |-> <<"browser">>,            app |-> <<"chrome">>],
       [alias |-> <<"web", SP, "browser">>, app |-> <<"chrome">>],
       [alias |-> <<"music">>,              app |-> <<"spotify">>],
       [alias |-> <<"player">>,             app |-> <<"spotify">>],
       [alias |-> <<"chat">>,               app |-> <<"discord">>],
       [alias |-> <<"messaging">>,          app |-> <<"discord">>],
       [alias |-> <<"video">>,              app |-> <<"vlc">>],
       [alias |-> <<"media">>,              app |-> <<"vlc">>],
       [alias |-> <<"photo">>,              app |-> <<"photo", "shop">>],
       [alias |-> <<"image">>,              app |-> <<"photo", "shop">>],
       [alias |-> <<"video", SP, "editor">>, app |-> <<"premiere">>],
       [alias |-> <<"design">>,             app |-> <<"figma">>],
       [alias |-> <<"game">>,               app |-> <<"steam">>],
       [alias |-> <<"stream">>,             app |-> <<"obs">>],
       [alias |-> <<"record">>,             app |-> <<"obs">>] >>

\* common_apps of _handle_common_apps, in dict order
common_apps ==
    << [app |-> <<"vs", "code">>,
        aliases |-> << <<"vs", "code">>, <<"vs", SP, "code">>,
                       <<"visual", SP, "studio", SP, "code">>,
                       <<"code", SP, "editor">> >>],
       [app |-> <<"chrome">>,
        aliases |-> << <<"chrome">>, <<"google", SP, "chrome">>, <<"browser">> >>],
       [app |-> <<"safari">>,
        aliases |-> << <<"safari">>, <<"apple", SP, "browser">> >>],
       [app |-> <<"firefox">>,
        aliases |-> << <<"firefox">>, <<"mozilla">> >>],
       [app |-> <<"terminal">>,
        aliases |-> << <<"terminal">>, <<"command", SP, "line">>, <<"cmd">> >>],
       [app |-> <<"calc", "ulator">>,
        aliases |-> << <<"calc", "ulator">>, <<"calc">>, <<"khrueang_khit_lek">> >>],
       [app |-> <<"calendar">>,
        aliases |-> << <<"calendar">>, <<"patithin">> >>],
       [app |-> <<"mail">>,
        aliases |-> << <<"mail">>, <<"e", "mail">>, <<"imeo">> >>],
       [app |-> <<"spotify">>,
        aliases |-> << <<"spotify">>, <<"music", SP, "player">>, <<"phleng">> >>],
       [app |-> <<"discord">>,
        aliases |-> << <<"discord">>, <<"chat">> >>],
       [app |-> <<"slack">>,
        aliases |-> << <<"slack">>, <<"team", SP, "chat">> >>],
       [app |-> <<"zoom">>,
        aliases |-> << <<"zoom">>, <<"video", SP, "call">>, <<"meeting">> >>],
       [app |-> <<"teams">>,
        aliases |-> << <<"teams">>, <<"microsoft", SP, "teams">> >>],
       [app |-> <<"photo", "shop">>,
        aliases |-> << <<"photo", "shop">>, <<"adobe", SP, "photo", "shop">>,
                       <<"photo", SP, "editor">> >>],
       [app |-> <<"premiere">>,
        aliases |-> << <<"premiere">>, <<"adobe", SP, "premiere">>,
                       <<"video", SP, "editor">> >>],
       [app |-> <<"illustrator">>,
        aliases |-> << <<"illustrator">>, <<"adobe", SP, "illustrator">>,
                       <<"vector", SP, "editor">> >>],
       [app |-> <<"figma">>,
        aliases |-> << <<"figma">>, <<"design", SP, "tool">> >>],
       [app |-> <<"canva">>,
        aliases |-> << <<"canva">>, <<"design">> >>],
       [app |-> <<"steam">>,
        aliases |-> << <<"steam">>, <<"game", SP, "launcher">> >>],
       [app |-> <<"minecraft">>,
        aliases |-> << <<"minecraft">>, <<"game">> >>],
       [app |-> <<"obs">>,
        aliases |-> << <<"obs">>, <<"stream", "ing">>, <<"record", "ing">> >>],
       [app |-> <<"vlc">>,
        aliases |-> << <<"vlc">>, <<"media", SP, "player">>,
                       <<"video", SP, "player">> >>],
       [app |-> <<"itunes">>,
        aliases |-> << <<"itunes">>, <<"music">>, <<"apple", SP, "music">> >>] >>

\* _handle_common_apps
\*   "ไม่เข้าใจคำสั่งเปิดแอปพลิเคชันค่ะ กรุณาลองใหม่อีกครั้ง" when nothing applies
handle_common_apps(command, env) ==
    LET hits == {i \in 1..Len(common_apps) :
                    AnyIn(Lower(command), common_apps[i].aliases)}
    IN  IF hits = {}
        THEN Returned(<<"mai_khaochai_khamsang", "poet", "aep", "phlikhechan",
                        "kha">>, <<>>)
        ELSE LET app_name == common_apps[CHOOSE j \in hits :
                                            \A k \in hits : j <= k].app
                 app_path == application_path(app_name)
             IN  IF app_path # <<>>
                 THEN open_application(app_name, app_path, env)
                 ELSE try_alternative_open(app_name, env)

\* AppCommands.process_command
app_process_command(command, env) ==
    LET command_lower == Lower(command)
        named == {i \in 1..Len(applications) :
                    matches_app(command_lower, applications[i].name)}
        aliased == {i \in 1..Len(app_aliases) :
                      /\ Contains(command_lower, app_aliases[i].alias)
                      /\ application_path(app_aliases[i].app) # <<>>}
    IN  IF named # {}
        THEN LET i == CHOOSE j \in named : \A k \in named : j <= k
             IN  open_application(applications[i].name, applications[i].path, env)
        ELSE IF aliased # {}
             THEN LET i == CHOOSE j \in aliased : \A k \in aliased : j <= k
                  IN  open_application(app_aliases[i].app,
                                       application_path(app_aliases[i].app), env)
             ELSE handle_common_apps(command, env)

----------------------------------------------------------------------------
(* commands/media_commands.py *)

\* MediaCommands.media_services, in dict order
media_services ==
    << [name |-> <<"youtube">>,      url |-> <<"https://www.", "youtube", ".com">>],
       [name |-> <<"spotify">>,      url |-> <<"https://open.", "spotify", ".com">>],
       [name |-> <<"netflix">>,      url |-> <<"https://www.", "netflix", ".com">>],
       [name |-> <<"apple", "_", "music">>,
                                     url |-> <<"https://", "music", ".", "apple", ".com">>],
       [name |-> <<"soundcloud">>,   url |-> <<"https://", "soundcloud", ".com">>],
       [name |-> <<"deezer">>,       url |-> <<"https://www.", "deezer", ".com">>] >>

\* urllib.parse.quote: letters, digits and "_.-~/" are kept; a space becomes
\* %20, a tab %09, an apostrophe %27, and every other character (Thai text)
\* is percent-encoded, written here as "%" before the symbol
Unreserved ==
    {"x", "search", "youtube", "spotify", "netflix", "apple", "music",
     "soundcloud", "deezer", "play", "listen", "to", "watch", "video", "clip",
     "movie", "series", "open", "web", "site", "app", "lication", "vs", "code",
     "hello", "hi", "shut", "down", "google", "bing", "duckduckgo", "maps",
     "yuki", "media", "entertainment", "_", ".com", ".org", ".co.th", "."}

RECURSIVE Quote(_)
Quote(s) ==
    IF s = <<>> THEN <<>>
    ELSE (CASE Head(s) = SP -> <<"%20">>
            [] Head(s) = TAB -> <<"%09">>
            [] Head(s) = "'" -> <<"%27">>
            [] Head(s) \in Unreserved -> <<Head(s)>>
            [] OTHER -> <<"%", Head(s)>>) \o Quote(Tail(s))

\* _is_music_command: "เล่นเพลง", "play music", "ฟังเพลง", "listen to music",
\* "เปิดเพลง", "open music", "เพลง", "music"
is_music_command(command) ==
    AnyIn(command,
          << <<"len", "phleng">>, <<"play", SP, "music">>, <<"fang", "phleng">>,
             <<"listen", SP, "to", SP, "music">>, <<"poet", "phleng">>,
             <<"open", SP, "music">>, <<"phleng">>, <<"music">> >>)

\* the extraction triggers of _handle_music_command: "เล่นเพลง", "play music",
\* "ฟังเพลง", "listen to music", "เล่น", "play", "ฟัง", "listen"
music_triggers ==
    << <<"len", "phleng">>, <<"play", SP, "music">>, <<"fang", "phleng">>,
       <<"listen", SP, "to", SP, "music">>, <<"len">>, <<"play">>,
       <<"fang">>, <<"listen">> >>

\* _is_video_command: "ดูวิดีโอ", "watch video", "ดูคลิป", "watch clip", "ดูหนัง",
\* "watch movie", "ดูซีรีส์", "watch series", "เปิดวิดีโอ", "open video"
is_video_command(command) ==
    AnyIn(command,
          << <<"du", "widio">>, <<"watch", SP, "video">>, <<"du", "khlip">>,
             <<"watch", SP, "clip">>, <<"du", "nang">>, <<"watch", SP, "movie">>,
             <<"du", "siri">>, <<"watch", SP, "series">>, <<"poet", "widio">>,
             <<"open", SP, "video">> >>)

\* the extraction triggers of _handle_video_command: "ดู", "watch", "ดูวิดีโอ",
\* "watch video", "ดูคลิป", "watch clip"
video_triggers ==
    << <<"du">>, <<"watch">>, <<"du", "widio">>, <<"watch", SP, "video">>,
       <<"du", "khlip">>, <<"watch", SP, "clip">> >>

\* _determine_music_platform
determine_music_platform(command) ==
    LET c == Lower(command)
    IN  IF Contains(c, <<"spotify">>) THEN "spotify"
        ELSE IF Contains(c, <<"youtube">>) THEN "youtube"
        ELSE IF Contains(c, <<"apple", SP, "music">>) \/ Contains(c, <<"apple">>)
             THEN "apple_music"
        ELSE IF Contains(c, <<"soundcloud">>) THEN "soundcloud"
        ELSE IF Contains(c, <<"deezer">>) THEN "deezer"
        ELSE "youtube"

\* _determine_video_platform
determine_video_platform(command) ==
    IF Contains(Lower(command), <<"netflix">>) THEN "netflix" ELSE "youtube"

\* _play_on_youtube: pywhatkit.playonyt, on an exception a YouTube search in
\* the browser
\*   "เล่น {query} บน YouTube แล้วค่ะ", "ค้นหา {query} บน YouTube แล้วค่ะ",
\*   "เกิดข้อผิดพลาดในการเล่นบน YouTube ค่ะ"
play_on_youtube(query, env) ==
    IF env.playonyt = "ok"
    THEN Returned(<<"len", SP>> \o query \o <<SP, "bon", SP, "YouTube", SP,
                    "laeo", "kha">>,
                  <<Effect("playonyt", query)>>)
    ELSE LET tried == <<Effect("playonyt_failed", query)>>
             out == TryOpen(<<"https://www.", "youtube", ".com",
                              "/results?search_query=">> \o Quote(query),
                            <<"khon", "ha", SP>> \o query
                               \o <<SP, "bon", SP, "YouTube", SP, "laeo", "kha">>,
                            <<"koet_khophitphlat_nai_kan", "len", "bon", SP,
                              "YouTube", SP, "kha">>, env)
         IN  [out EXCEPT !.effects = tried \o @]

\* _play_on_spotify
play_on_spotify(query, env) ==
    TryOpen(<<"https://open.", "spotify", ".com", "/search/">> \o Quote(query),
            <<"khon", "ha", SP>> \o query
               \o <<SP, "bon", SP, "Spotify", SP, "laeo", "kha">>,
            <<"koet_khophitphlat_nai_kan", "len", "bon", SP, "Spotify", SP,
              "kha">>, env)

\* _search_on_netflix
search_on_netflix(query, env) ==
    TryOpen(<<"https://www.", "netflix", ".com", "/search?q=">> \o Quote(query),
            <<"khon", "ha", SP>> \o query
               \o <<SP, "bon", SP, "Netflix", SP, "laeo", "kha">>,
            <<"koet_khophitphlat_nai_kan", "khon", "ha", "bon", SP, "Netflix",
              SP, "kha">>, env)

\* _handle_music_command
\*   "กรุณาระบุเพลงหรือศิลปินที่ต้องการฟังค่ะ" when the query is empty
handle_music_command(command, env) ==
    LET query == extract_query_from_command(command, music_triggers)
        platform == determine_music_platform(command)
    IN  IF query = <<>>
        THEN Returned(<<"karuna_rabu", "phleng", "rue_sinlapin_thi_tongkan",
                        "fang", "kha">>, <<>>)
        ELSE IF platform = "spotify" THEN play_on_spotify(query, env)
             ELSE play_on_youtube(query, env)

\* _handle_video_command
\*   "กรุณาระบุวิดีโอที่ต้องการดูค่ะ" when the query is empty
handle_video_command(command, env) ==
    LET query == extract_query_from_command(command, video_triggers)
        platform == determine_video_platform(command)
    IN  IF query = <<>>
        THEN Returned(<<"karuna_rabu", "widio", "thi_tongkan", "du", "kha">>, <<>>)
        ELSE IF platform = "netflix" THEN search_on_netflix(query, env)
             ELSE play_on_youtube(query, env)

\* _is_streaming_command
is_streaming_command(command) ==
    AnyIn(command,
          << <<"netflix">>, <<"spotify">>, <<"youtube">>,
             <<"apple", SP, "music">>, <<"soundcloud">>, <<"deezer">> >>)

\* _handle_streaming_command
\*   "ไม่เข้าใจคำสั่งบริการสตรีมมิ่งค่ะ" when no service key is in the command
handle_streaming_command(command, env) ==
    LET hits == {i \in 1..Len(media_services) :
                    Contains(Lower(command), media_services[i].name)}
    IN  IF hits = {}
        THEN Returned(<<"mai_khaochai_khamsang_borikan_satrimming_kha">>, <<>>)
        ELSE LET i == CHOOSE j \in hits : \A k \in hits : j <= k
             IN  open_website(media_services[i].name, media_services[i].url, env)

\* MediaCommands._is_media_command: "media", "entertainment", "ความบันเทิง", "สื่อ"
is_general_media_command(command) ==
    AnyIn(command,
          << <<"media">>, <<"entertainment">>, <<"khwam_banthoeng">>, <<"sue">> >>)

\* _handle_general_media_command
handle_general_media_command(command, env) ==
    TryOpen(<<"https://www.", "youtube", ".com">>,
            <<"poet", SP, "YouTube", SP, "laeo", "kha">>,
            <<"koet_khophitphlat_nai_kan", "poet", SP, "YouTube", SP, "kha">>,
            env)

\* MediaCommands.process_command
\*   "ไม่เข้าใจคำสั่งสื่อค่ะ กรุณาลองใหม่อีกครั้ง" when nothing applies
media_process_command(command, env) ==
    LET command_lower == Lower(command)
    IN  IF is_music_command(command_lower)
        THEN handle_music_command(command, env)
        ELSE IF is_video_command(command_lower)
        THEN handle_video_command(command, env)
        ELSE IF is_streaming_command(command_lower)
        THEN handle_streaming_command(command, env)
        ELSE IF is_general_media_command(command_lower)
        THEN handle_general_media_command(command, env)
        ELSE Returned(<<"mai_khaochai_khamsang", "sue", "kha">>, <<>>)

----------------------------------------------------------------------------
(* CommandProcessor: actions and routing stages *)

\* _get_current_time: "ขณะนี้เวลา {hour} นาฬิกา {minute} นาที {second} วินาที"
get_current_time ==
    <<"khanani_wela", SP, "HH", SP, "nalika", SP, "MM", SP, "nathi", SP, "SS",
      SP, "winathi">>

\* _get_weather
\*   "ขออภัยค่ะ ไม่สามารถดึงข้อมูลสภาพอากาศได้ เนื่องจากไม่มี API key",
\*   "อุณหภูมิปัจจุบันในประเทศไทยคือ ... ค่ะ", "ขออภัยค่ะ ไม่สามารถดึงข้อมูลสภาพอากาศได้"
get_weather(env) ==
    CASE env.weather = "nokey" ->
            Returned(<<"kho_aphai_kha", SP, "mai_samat_dueng_khomun_akat", SP,
                       "mai_mi", SP, "api", SP, "key">>, <<>>)
      [] env.weather = "ok" ->
            Returned(<<"unhaphum_patchuban", SP, "TEMP", SP, "CONDITIONS", SP,
                       "kha">>, <<Effect("urlopen", <<"weather_api">>)>>)
      [] OTHER ->
            Returned(<<"kho_aphai_kha", SP, "mai_samat_dueng_khomun_akat">>,
                     <<Effect("urlopen_failed", <<"weather_api">>)>>)

\* _shutdown: "ยูกิกำลังปิดตัวลงค่ะ", spoken before it is returned
shutdown_response == <<"yuki_th", "kamlang", "pit_tua_long", "kha">>

\* web_actions and service_names of _handle_web_action
web_actions ==
    [open_google    |-> <<"https://www.", "google", ".com">>,
     open_youtube   |-> <<"https://www.", "youtube", ".com">>,
     open_facebook  |-> <<"https://www.", "facebook", ".com">>,
     open_instagram |-> <<"https://www.", "instagram", ".com">>,
     open_chatgpt   |-> <<"https://", "chat", ".", "openai", ".com">>,
     open_gemini    |-> <<"https://", "gemini", ".", "google", ".com", "/app">>]

service_names ==
    [open_google    |-> <<"Google">>,
     open_youtube   |-> <<"YouTube">>,
     open_facebook  |-> <<"Facebook">>,
     open_instagram |-> <<"Instagram">>,
     open_chatgpt   |-> <<"ChatGPT">>,
     open_gemini    |-> <<"Gemini">>]

\* action.startswith("open_") for the action tags of the tables above
starts_with_open(action) ==
    action \in (DOMAIN web_actions) \cup {"open_maps"}

\* _handle_web_action that opens a search for a tag without URL
handle_web_action_OpensAnyway(action, command, env) ==
    IF action \in DOMAIN web_actions
    THEN TryOpen(web_actions[action], opened_reply(service_names[action]),
                 <<"kho_aphai_kha", SP, "koet_khophitphlat_nai_kan", "poet",
                   "web_th", "sai">>, env)
    ELSE TryOpen(<<"https://www.", "google", ".com", "/search?q=", action>>,
                 opened_reply(<<action>>),
                 <<"kho_aphai_kha", SP, "koet_khophitphlat_nai_kan", "poet",
                   "web_th", "sai">>, env)

\* _handle_web_action
\*   "ขออภัยค่ะ ไม่สามารถเปิด {action} ได้" for a tag without URL,
\*   "ขออภัยค่ะ เกิดข้อผิดพลาดในการเปิดเว็บไซต์" on an exception
handle_web_action(action, command, env) ==
    IF action \in DOMAIN web_actions
    THEN TryOpen(web_actions[action], opened_reply(service_names[action]),
                 <<"kho_aphai_kha", SP, "koet_khophitphlat_nai_kan", "poet",
                   "web_th", "sai">>, env)
    ELSE Returned(<<"kho_aphai_kha", SP, "mai_samat", "poet", SP, action, SP,
                    "dai">>, <<>>)

\* _execute_action that also speaks the time
execute_action_SpeaksTime(action, command, env) ==
    CASE action = "time" ->
            Returned(get_current_time, <<Effect("speak", get_current_time)>>)
      [] action = "greeting" -> Returned(get_response("greeting"), <<>>)
      [] action = "name" -> Returned(get_response("name"), <<>>)
      [] action = "weather" -> get_weather(env)
      [] action = "shutdown" ->
            IF env.speak = "ok"
            THEN Returned(shutdown_response,
                          <<Effect("speak", shutdown_response)>>)
            ELSE Returned(get_response("error"),
                          <<Effect("speak_failed", shutdown_response)>>)
      [] starts_with_open(action) -> handle_web_action(action, command, env)
      [] OTHER -> Returned(<<action>>, <<>>)

\* _execute_action
execute_action(action, command, env) ==
    CASE action = "time" -> Returned(get_current_time, <<>>)
      [] action = "greeting" -> Returned(get_response("greeting"), <<>>)
      [] action = "name" -> Returned(get_response("name"), <<>>)
      [] action = "weather" -> get_weather(env)
      [] action = "shutdown" ->
            IF env.speak = "ok"
            THEN Returned(shutdown_response,
                          <<Effect("speak", shutdown_response)>>)
            ELSE Returned(get_response("error"),
                          <<Effect("speak_failed", shutdown_response)>>)
      [] starts_with_open(action) -> handle_web_action(action, command, env)
      [] OTHER -> Returned(<<action>>, <<>>)

\* _is_web_search: "ค้นหา", "search", "เสิร์ช" anywhere; "หา" at the start or
\* between spaces
is_web_search(command) ==
    LET command_lower == Lower(command)
    IN  \/ AnyIn(command_lower, << <<"khon", "ha">>, <<"search">>, <<"soet">> >>)
        \/ /\ Contains(command_lower, <<"ha">>)
           /\ \/ StartsWith(command_lower, <<"ha">>)
              \/ Contains(command_lower, <<SP, "ha", SP>>)

\* handle_web_search without the test for an empty query
handle_web_search_NoGuard(command, env) ==
    LET query == extract_query_from_command(command, search_triggers)
        search_url == <<"https://www.", "google", ".com", "/search?q=">> \o query
    IN  IF env.browser = "ok"
        THEN Returned(<<"khon", "ha", SP>> \o query
                         \o <<SP, "bon", SP, "Google", SP, "laeo", "kha">>,
                      <<Effect("open_url", search_url)>>)
        ELSE Raised(<<Effect("open_url_failed", search_url)>>)

\* CommandProcessor._handle_web_search: webbrowser.open is called outside
\* any try block
\*   "ค้นหา {query} บน Google แล้วค่ะ"
handle_web_search(command, env) ==
    LET query == extract_query_from_command(command, search_triggers)
        search_url == <<"https://www.", "google", ".com", "/search?q=">> \o query
    IN  IF query # <<>>
        THEN IF env.browser = "ok"
             THEN Returned(<<"khon", "ha", SP>> \o query
                              \o <<SP, "bon", SP, "Google", SP, "laeo", "kha">>,
                           <<Effect("open_url", search_url)>>)
             ELSE Raised(<<Effect("open_url_failed", search_url)>>)
        ELSE Returned(get_response("no_query"), <<>>)

\* _is_web_service_command
is_web_service_command(command) == AnyIn(Lower(command), web_triggers)

\* _is_app_command
is_app_command(command) == AnyIn(Lower(command), app_triggers)

\* _is_media_command: "เล่นเพลง", "play music", "ฟังเพลง", "listen to music",
\* "ดูวิดีโอ", "watch video", "เปิดเพลง", "open music", "เปิดวิดีโอ", "open video"
is_media_command(command) ==
    AnyIn(Lower(command),
          << <<"len", "phleng">>, <<"play", SP, "music">>, <<"fang", "phleng">>,
             <<"listen", SP, "to", SP, "music">>, <<"du", "widio">>,
             <<"watch", SP, "video">>, <<"poet", "phleng">>,
             <<"open", SP, "music">>, <<"poet", "widio">>,
             <<"open", SP, "video">> >>)

\* the context string of _handle_llm_conversation
voice_context == <<"You_are_being_spoken_to_through_a_voice_assistant">>

\* The stages of _execute_command in the order they are tried
Stages == <<"pattern", "web_search", "web_service", "app", "media", "llm">>

\* the stages whose trigger matches the command (the conversational
\* fallback has no trigger: it takes what is left)
matching_stages(table, command) ==
    (IF first_match(table, Lower(command)) # 0 THEN {"pattern"} ELSE {})
    \cup (IF is_web_search(command) THEN {"web_search"} ELSE {})
    \cup (IF is_web_service_command(command) THEN {"web_service"} ELSE {})
    \cup (IF is_app_command(command) THEN {"app"} ELSE {})
    \cup (IF is_media_command(command) THEN {"media"} ELSE {})
    \cup {"llm"}

\* stage_of with the media classifier tried before the web search
stage_of_MediaFirst(table, command) ==
    IF first_match(table, Lower(command)) # 0 THEN "pattern"
    ELSE IF is_media_command(command) THEN "media"
    ELSE IF is_web_search(command) THEN "web_search"
    ELSE IF is_web_service_command(command) THEN "web_service"
    ELSE IF is_app_command(command) THEN "app"
    ELSE "llm"

\* the stage _execute_command runs for the command
stage_of(table, command) ==
    IF first_match(table, Lower(command)) # 0 THEN "pattern"
    ELSE IF is_web_search(command) THEN "web_search"
    ELSE IF is_web_service_command(command) THEN "web_service"
    ELSE IF is_app_command(command) THEN "app"
    ELSE IF is_media_command(command) THEN "media"
    ELSE "llm"

\* the action tag of the pattern entry that decides the command
\* ("-" when no entry matches)
action_of(table, command) ==
    IF first_match(table, Lower(command)) # 0
    THEN table[first_match(table, Lower(command))].action
    ELSE "-"

\* execute_command with the web search tried before the pattern table
execute_command_SearchFirst(table, command, env) ==
    LET stage == IF is_web_search(command) THEN "web_search"
                 ELSE stage_of(table, command)
    IN  CASE stage = "pattern" ->
                execute_action(action_of(table, command), command, env)
          [] stage = "web_search" -> handle_web_search(command, env)
          [] stage = "web_service" -> web_process_command(command, env)
          [] stage = "app" -> app_process_command(command, env)
          [] OTHER -> media_process_command(command, env)

\* _execute_command for a command that one of the first five stages takes:
\* the outcome of that stage
execute_command(table, command, env) ==
    LET stage == stage_of(table, command)
    IN  CASE stage = "pattern" ->
                execute_action(action_of(table, command), command, env)
          [] stage = "web_search" -> handle_web_search(command, env)
          [] stage = "web_service" -> web_process_command(command, env)
          [] stage = "app" -> app_process_command(command, env)
          [] OTHER -> media_process_command(command, env)

\* gate_of without the early return for text that is not addressed to the
\* assistant
gate_of_NoSilence(text) ==
    LET norm == process_thai_text(clean_text(text))
    IN  IF text = <<>> THEN [gate |-> "empty", command |-> <<>>]
        ELSE IF is_wake_word_call(norm) THEN [gate |-> "bare", command |-> <<>>]
        ELSE IF extract_command(norm) = <<>>
             THEN [gate |-> "no_command", command |-> <<>>]
        ELSE [gate |-> "routed", command |-> extract_command(norm)]

\* process_command up to the wake-word gate: the normalised text, how the
\* gate classifies it and the command left after the wake word
gate_of(text) ==
    LET norm == process_thai_text(clean_text(text))
    IN  IF text = <<>> THEN [gate |-> "empty", command |-> <<>>]
        ELSE IF is_wake_word_call(norm) THEN [gate |-> "bare", command |-> <<>>]
        ELSE IF ~starts_with_wake_word(norm)
             THEN [gate |-> "unrelated", command |-> <<>>]
        ELSE IF extract_command(norm) = <<>>
             THEN [gate |-> "no_command", command |-> <<>>]
        ELSE [gate |-> "routed", command |-> extract_command(norm)]

----------------------------------------------------------------------------
(* main.py: YukiAI._handle_command *)

\* the second literal of the shutdown test of _handle_command, as stored in
\* main.py: the UTF-8 bytes of "ปิดตัวลง" read as Mac Roman and saved again,
\* 24 characters none of which is a Thai letter
stop_literal == <<"pit_tua_long_mojibake">>

\* _handle_command calls self.stop() for this response of process_command:
\*   if response: if "shutdown" in response.lower() or <literal> in response
stop_called(response) ==
    /\ response # <<>>
    /\ \/ Contains(Lower(response), <<"shut", "down">>)
       \/ Contains(response, stop_literal)

----------------------------------------------------------------------------
(* Inputs *)

\* an utterance is a lead-in followed by at most two phrases
Leads == { <<>>, <<"yuki_th", SP>>, <<"YUKI">> }

Words ==
    { <<SP>>, <<"x">>, <<"search">>, <<"len", "phleng">>,
      <<"poet", "web_th", SP>>, <<"poet", "web_th", SP, "youtube">>,
      <<"poet", "aep", SP, "vs", "code">>, <<"kimonglaeo">>,
      <<"shut", "down">> }

Bodies == { <<>> } \cup Words \cup { v \o w : v \in Words, w \in Words }

Utterances == { l \o b : l \in Leads, b \in Bodies }

\* what generate_response is asked directly
UserInputs ==
    { <<"x">>, <<"khopkhun", "thi", "hello">>, <<"khopkhun", "thi", "chuai">>,
      <<"THANK", "s">> }

\* the outcomes that can differ in a call of the engine
LLMEnvs ==
    { [Quiet EXCEPT !.probe = p, !.chat = c] :
        p \in BOOLEAN, c \in ChatOutcomes \ {"ok"} }
    \cup { [Quiet EXCEPT !.probe = p, !.chat = "ok", !.reply = r] :
             p \in BOOLEAN, r \in BackendReplies }

\* the outcomes that can differ while a stage before the fallback runs
EnvsFor(stage, action) ==
    CASE stage = "pattern" /\ action = "weather" ->
            { [Quiet EXCEPT !.weather = w] : w \in {"nokey", "ok", "error"} }
      [] stage = "pattern" /\ action = "shutdown" ->
            { [Quiet EXCEPT !.speak = v] : v \in {"ok", "raise"} }
      [] stage = "pattern" /\ starts_with_open(action) ->
            { [Quiet EXCEPT !.browser = b] : b \in {"ok", "raise"} }
      [] stage = "pattern" -> { Quiet }
      [] stage \in {"web_search", "web_service"} ->
            { [Quiet EXCEPT !.browser = b] : b \in {"ok", "raise"} }
      [] stage = "app" ->
            { [Quiet EXCEPT !.exists = e, !.popen = o, !.platform = f,
                            !.alt_exists = a] :
                e \in BOOLEAN, o \in {"ok", "raise"},
                f \in {"macos", "linux"}, a \in BOOLEAN }
      [] stage = "media" ->
            { [Quiet EXCEPT !.playonyt = y, !.browser = b] :
                y \in {"ok", "raise"}, b \in {"ok", "raise"} }
      [] OTHER -> { Quiet }

\* gate_of, tabulated over the utterances
Gated == [text \in Utterances |-> gate_of(text)]

RoutedCommands ==
    { Gated[text].command : text \in { t \in Utterances : Gated[t].gate = "routed" } }

\* stage_of, matching_stages and execute_command, tabulated over the pattern
\* tables, the routed commands and the outcomes of the collaborators
Dispatched ==
    [table \in CommandTables |->
        [command \in RoutedCommands |->
            LET stage == stage_of(table, command)
                action == action_of(table, command)
            IN  [stage   |-> stage,
                 matches |-> matching_stages(table, command),
                 outs    |-> IF stage = "llm" THEN << >>
                             ELSE [env \in EnvsFor(stage, action) |->
                                     execute_command(table, command, env)]]]]

----------------------------------------------------------------------------
(* State machine *)

\* the observation left by a call: the operation and its argument, the
\* verdict of the wake-word gate, the stage that ran and the stages whose
\* trigger matched, the returned string (or the exception), the side effects
\* in order, the backend contacted with the messages sent to it, and the
\* outcomes of the collaborators
Observation(op, text, gate, stage, matches, out, backend, messages, env) ==
    [op |-> op, text |-> text, gate |-> gate, stage |-> stage,
     matches |-> matches, status |-> out.status, result |-> out.result,
     effects |-> out.effects, backend |-> backend, messages |-> messages,
     env |-> env]

\* a reply that involves no stage and no collaborator
Plain(op, text, gate, result) ==
    Observation(op, text, gate, "-", {}, Returned(result, <<>>), "-", <<>>,
                Quiet)

NoCall == Plain("none", <<>>, "-", <<>>)

\* CommandProcessor and LLMEngine after construction, for a session of
\* utterances
Init ==
    /\ commands \in CommandTables
    /\ call_count = 0
    /\ context_window \in 1..MaxWindow
    /\ use_cloud_api \in BOOLEAN
    /\ openai_api_key = TRUE
    /\ conversation_history = <<>>
    /\ last = NoCall
    /\ ConfigLoaded
    /\ enable_llm = TRUE
    /\ CounterFileAbsent

\* LLMEngine after construction, for calls on the engine itself
InitLLM ==
    /\ commands = get_default_commands
    /\ call_count = 0
    /\ context_window \in 0..MaxWindow
    /\ use_cloud_api \in BOOLEAN
    /\ openai_api_key \in BOOLEAN
    /\ conversation_history = <<>>
    /\ last = NoCall
    /\ ConfigLoaded
    /\ enable_llm \in BOOLEAN
    /\ CounterFileAbsent

\* no call is in progress and the caller has taken the last response
Idle == last.op = "none"

\* the caller takes the response of the call; the next call starts from a
\* blank observation
TakeResponse ==
    /\ last.op # "none"
    /\ last' = NoCall
    /\ UNCHANGED <<legacy, admin, commands, call_count, context_window, use_cloud_api,
                   openai_api_key, conversation_history>>

\* process_command that starts the count of wake calls anew on text that is
\* not addressed to the assistant
ProcessInert_ResetsCount ==
    /\ Idle
    /\ \E text \in Utterances :
        /\ Gated[text].gate \in {"empty", "unrelated", "no_command"}
        /\ last' = Plain("process_command", text, Gated[text].gate,
                         CASE Gated[text].gate = "empty" -> <<>>
                           [] Gated[text].gate = "unrelated" -> <<"...">>
                           [] OTHER -> get_response("no_command"))
        /\ call_count' = IF Gated[text].gate = "unrelated" THEN 0
                         ELSE call_count
        /\ UNCHANGED <<legacy, admin, commands, context_window, use_cloud_api,
                       openai_api_key, conversation_history>>

\* process_command: "" for empty text, "..." for text that is not addressed
\* to the assistant, the no_command template when only the wake word is left
ProcessInert ==
    /\ Idle
    /\ \E text \in Utterances :
        /\ Gated[text].gate \in {"empty", "unrelated", "no_command"}
        /\ last' = Plain("process_command", text, Gated[text].gate,
                         CASE Gated[text].gate = "empty" -> <<>>
                           [] Gated[text].gate = "unrelated" -> <<"...">>
                           [] OTHER -> get_response("no_command"))
        /\ UNCHANGED <<legacy, admin, commands, call_count, context_window, use_cloud_api,
                       openai_api_key, conversation_history>>

\* process_command for a bare wake call: _handle_wake_word_call
ProcessBareWake ==
    /\ Idle
    /\ \E text \in Utterances :
        /\ Gated[text].gate = "bare"
        /\ call_count < MaxCalls
        /\ call_count' = call_count + 1
        /\ last' = Plain("process_command", text, "bare",
                         wake_reply(call_count + 1))
        /\ UNCHANGED <<legacy, admin, commands, context_window, use_cloud_api, openai_api_key,
                       conversation_history>>

\* process_command for a command that a pattern or a domain classifier takes
ProcessHandled ==
    /\ Idle
    /\ \E text \in Utterances :
        /\ Gated[text].gate = "routed"
        /\ LET d == Dispatched[commands][Gated[text].command]
           IN  /\ d.stage # "llm"
               /\ \E env \in DOMAIN d.outs :
                     last' = Observation("process_command", text, "routed",
                                         d.stage, d.matches, d.outs[env], "-",
                                         <<>>, env)
        /\ UNCHANGED <<legacy, admin, commands, call_count, context_window, use_cloud_api,
                       openai_api_key, conversation_history>>

\* process_command for a command left to the conversation:
\* _handle_llm_conversation
ProcessConversation ==
    /\ Idle
    /\ \E text \in Utterances :
        /\ Gated[text].gate = "routed"
        /\ LET command == Gated[text].command
               d == Dispatched[commands][command]
           IN  /\ d.stage = "llm"
               /\ \E env \in LLMEnvs :
                     LET out == generate_response(command, voice_context, env)
                     IN  /\ Len(out.history) <= MaxHistory
                         /\ conversation_history' = out.history
                         /\ last' = Observation("process_command", text,
                                                "routed", "llm", d.matches, out,
                                                out.backend, out.messages, env)
        /\ UNCHANGED <<legacy, admin, commands, call_count, context_window, use_cloud_api,
                       openai_api_key>>

\* LLMEngine.generate_response, called on the engine itself
GenerateResponse ==
    \E user_input \in UserInputs, context \in { <<>>, voice_context },
       env \in LLMEnvs :
        LET out == generate_response(user_input, context, env)
        IN  /\ Idle
            /\ Len(out.history) <= MaxHistory
            /\ conversation_history' = out.history
            /\ last' = Observation("generate_response", user_input, "-", "-",
                                   {}, out, out.backend, out.messages, env)
            /\ UNCHANGED <<legacy, admin, commands, call_count, context_window, use_cloud_api,
                           openai_api_key>>

\* LLMEngine.clear_history
ClearHistory ==
    /\ Idle
    /\ conversation_history' = <<>>
    /\ last' = Plain("clear_history", <<>>, "-", <<>>)
    /\ UNCHANGED <<legacy, admin, commands, call_count, context_window, use_cloud_api,
                   openai_api_key>>

\* CommandProcessor.process_command
ProcessCommand ==
    ProcessInert \/ ProcessBareWake \/ ProcessHandled \/ ProcessConversation

Next == ProcessCommand \/ ClearHistory \/ TakeResponse

Spec == Init /\ [][Next]_vars

NextLLM == GenerateResponse \/ ClearHistory \/ TakeResponse

SpecLLM == InitLLM /\ [][NextLLM]_vars

----------------------------------------------------------------------------
(* Wake-prefixed commands, one per way through the routing stages *)

\* the commands spoken after the wake word
PhraseCommands ==
    { <<"search">>,
      <<"search", SP, "x">>,
      <<"search", SP, "x", SP, "search">>,
      <<"khon", "ha", SP, "x">>,
      <<"ha", SP, "x">>,
      <<"search", SP, "x", SP, "youtube">>,
      <<"search", SP, "bing", SP, "x">>,
      <<"search", SP, "len", "phleng">>,
      <<"kimonglaeo">>,
      <<"kimonglaeo", SP, "search", SP, "x">>,
      <<"shut", "down", SP, "kimonglaeo">>,
      <<"poet", "web_th">>,
      <<"poet", "web_th", SP, "youtube">>,
      <<"poet", "web_th", SP, "x">>,
      <<"poet", "web_th", SP, "x", ".com">>,
      <<"poet", "web_th", "sai", SP, "x">>,
      <<"open", SP, "site", SP, "x">>,
      <<"poet", "aep", SP, "vs", "code">>,
      <<"poet", "aep", SP, "code">>,
      <<"poet", "aep", SP, "chrome">>,
      <<"poet", "aep", SP, "x">>,
      <<"len", "phleng">>,
      <<"len", "phleng", SP, "x">>,
      <<"len", "phleng", SP, "x", SP, "spotify">>,
      <<"len", "phleng", SP, "x", SP, "soundcloud">>,
      <<"poet", "phleng", SP, "x">>,
      <<"du", "widio">>,
      <<"du", "widio", SP, "x">>,
      <<"du", "widio", SP, "x", SP, "netflix">>,
      <<"poet", "widio", SP, "x">>,
      <<"akat_wanni_pen_yangrai">>,
      <<"maps">>,
      <<"kimong">>,
      <<"x">> }

Phrases == { <<"yuki_th", SP>> \o command : command \in PhraseCommands }

\* process_command up to and including the stage that takes the command,
\* tabulated over the pattern tables, the phrases and the outcomes of the
\* collaborators
Executed ==
    [table \in CommandTables |->
        [text \in Phrases |->
            LET command == gate_of(text).command
                stage == stage_of(table, command)
                action == action_of(table, command)
            IN  [gate    |-> gate_of(text).gate,
                 command |-> command,
                 stage   |-> stage,
                 matches |-> matching_stages(table, command),
                 outs    |-> IF stage = "llm" THEN << >>
                             ELSE [env \in EnvsFor(stage, action) |->
                                     execute_command(table, command, env)]]]]

\* CommandProcessor and LLMEngine after construction with the default
\* engine settings (no cloud API, no key)
InitRouter ==
    /\ commands \in CommandTables
    /\ call_count = 0
    /\ context_window \in 1..MaxWindow
    /\ use_cloud_api = FALSE
    /\ openai_api_key = FALSE
    /\ conversation_history = <<>>
    /\ last = NoCall
    /\ ConfigLoaded
    /\ enable_llm = TRUE
    /\ CounterFileAbsent

\* process_command for a wake-prefixed command: _execute_command
ProcessPhrase ==
    \E text \in Phrases :
        LET e == Executed[commands][text]
        IN  /\ Idle
            /\ e.gate = "routed"
            /\ IF e.stage = "llm"
               THEN \E env \in LLMEnvs :
                      LET out == generate_response(e.command, voice_context, env)
                      IN  /\ Len(out.history) <= MaxHistory
                          /\ conversation_history' = out.history
                          /\ last' = Observation("process_command", text,
                                                 "routed", "llm", e.matches, out,
                                                 out.backend, out.messages, env)
               ELSE /\ \E env \in DOMAIN e.outs :
                         last' = Observation("process_command", text, "routed",
                                             e.stage, e.matches, e.outs[env],
                                             "-", <<>>, env)
                    /\ UNCHANGED conversation_history
            /\ UNCHANGED <<legacy, admin, commands, call_count, context_window, use_cloud_api,
                           openai_api_key>>

NextRouter == ProcessPhrase \/ TakeResponse

SpecRouter == InitRouter /\ [][NextRouter]_vars

----------------------------------------------------------------------------
(* The text helpers and the wake-prefix removal, applied to arbitrary text *)

\* the pieces the texts are put together from: whitespace, the wake words in
\* both scripts and cases, a word, and the pronoun "ผม" and the particle
\* "ครับ" whole and in parts
Chunks ==
    { <<SP>>, <<TAB>>, <<SP, SP, SP>>, <<"YUKI">>, <<"yuki_th">>, <<"x">>,
      <<"ph">>, <<"m">>, <<"ph", "m">>, <<"kh", "r", "han", "b">>, <<"kh">>,
      <<"r", "han", "b">> }

RECURSIVE TextsOf(_)
TextsOf(n) ==
    IF n = 0 THEN { <<>> }
    ELSE { t \o c : t \in TextsOf(n - 1), c \in Chunks \cup { <<>> } }

Texts == TextsOf(MaxChunks)

\* the normalization of process_command: clean_text, then process_thai_text
Normalize(text) == process_thai_text(clean_text(text))

\* helpers.clean_text(text)
CleanText ==
    /\ Idle
    /\ \E text \in Texts :
        /\ last' = Plain("clean_text", text, "-", clean_text(text))
        /\ UNCHANGED <<legacy, admin, commands, call_count, context_window, use_cloud_api,
                       openai_api_key, conversation_history>>

\* helpers.process_thai_text(text)
ProcessThaiText ==
    /\ Idle
    /\ \E text \in Texts :
        /\ last' = Plain("process_thai_text", text, "-", process_thai_text(text))
        /\ UNCHANGED <<legacy, admin, commands, call_count, context_window, use_cloud_api,
                       openai_api_key, conversation_history>>

\* the first two steps of process_command on a non-empty text
NormalizeText ==
    /\ Idle
    /\ \E text \in Texts :
        /\ last' = Plain("normalize", text, "-", Normalize(text))
        /\ UNCHANGED <<legacy, admin, commands, call_count, context_window, use_cloud_api,
                       openai_api_key, conversation_history>>

\* CommandProcessor._extract_command(text)
ExtractCommand ==
    /\ Idle
    /\ \E text \in Texts :
        /\ last' = Plain("extract_command", text, "-", extract_command(text))
        /\ UNCHANGED <<legacy, admin, commands, call_count, context_window, use_cloud_api,
                       openai_api_key, conversation_history>>

\* the trigger lists given to extract_query_from_command by _handle_search
\* (and _handle_web_search), _handle_music_command and _handle_video_command
extraction_triggers ==
    [search |-> search_triggers,
     music  |-> music_triggers,
     video  |-> video_triggers]

\* what is asked for after the trigger
Queries == { <<"x">>, <<"x", SP, "y">> }

\* extract_query_from_command(command, triggers) for a command made of a
\* trigger of the list, a space and a query
ExtractQuery ==
    /\ Idle
    /\ \E name \in DOMAIN extraction_triggers, query \in Queries :
        \E i \in 1..Len(extraction_triggers[name]) :
            LET command == extraction_triggers[name][i] \o <<SP>> \o query
            IN  /\ last' = Plain("extract_query_from_command", command, name,
                                 extract_query_from_command(
                                     command, extraction_triggers[name]))
                /\ UNCHANGED <<legacy, admin, commands, call_count, context_window,
                               use_cloud_api, openai_api_key,
                               conversation_history>>

NextText ==
    CleanText \/ ProcessThaiText \/ NormalizeText \/ ExtractCommand
    \/ ExtractQuery \/ TakeResponse

SpecText == InitRouter /\ [][NextText]_vars

----------------------------------------------------------------------------
(* process_command seen call by call: the calls that wait for something    *)
(* outside the program                                                      *)

\* the timeout, in seconds, given to an external call; a call that is not
\* listed is made without one:
\*   requests.get(.../api/tags, timeout=5), requests.post(.../api/chat,
\*   timeout=30); urllib.request.urlopen(url), webbrowser.open(url),
\*   pywhatkit.playonyt(query), subprocess.Popen / subprocess.run
TimeoutOf == [probe |-> 5, chat |-> 30]

\* the external call behind a side effect ("none": nothing to wait for)
PendingOf(kind) ==
    CASE kind \in {"open_url", "open_url_failed"} -> "open_url"
      [] kind \in {"launch", "launch_failed"} -> "launch"
      [] kind \in {"playonyt", "playonyt_failed"} -> "playonyt"
      [] kind \in {"urlopen", "urlopen_failed"} -> "urlopen"
      [] OTHER -> "none"

\* the first external call of a stage before the fallback
FirstCall(out) ==
    IF out.effects = <<>> THEN "none" ELSE PendingOf(out.effects[1].kind)

\* the call has been made and has not come back
Waiting(call) ==
    [status |-> "waiting", result |-> <<>>,
     effects |-> <<Effect("pending", <<call>>)>>]

PendingCall == last.effects[1].arg[1]

\* process_command up to its first external call (to its return when it
\* makes none); the conversation begins with the liveness probe
StartCommand ==
    /\ Idle
    /\ \E text \in Phrases :
          LET e == Executed[commands][text]
          IN  IF e.stage = "llm"
              THEN \E env \in LLMEnvs :
                      last' = Observation("process_command", text, "routed",
                                          "llm", e.matches, Waiting("probe"),
                                          "-", <<>>, env)
              ELSE \E env \in DOMAIN e.outs :
                      last' = Observation("process_command", text, "routed",
                                          e.stage, e.matches,
                                          IF FirstCall(e.outs[env]) = "none"
                                          THEN e.outs[env]
                                          ELSE Waiting(FirstCall(e.outs[env])),
                                          "-", <<>>, env)
    /\ UNCHANGED <<legacy, admin, commands, call_count, context_window, use_cloud_api,
                   openai_api_key, conversation_history>>

\* the rest of the conversation once the probe and the chat call are over
Converse(env) ==
    LET out == generate_response(Executed[commands][last.text].command,
                                 voice_context, env)
    IN  /\ Len(out.history) <= MaxHistory
        /\ conversation_history' = out.history
        /\ last' = Observation("process_command", last.text, "routed", "llm",
                               last.matches, out, out.backend, out.messages, env)

\* the external call comes back (with a result or an error) and the
\* handler runs on: after a successful probe the chat call is made
ServiceAnswers ==
    /\ last.status = "waiting"
    /\ CASE PendingCall = "probe" /\ last.env.probe ->
               /\ last' = [last EXCEPT !.effects = Waiting("chat").effects]
               /\ UNCHANGED conversation_history
         [] PendingCall \in {"probe", "chat"} -> Converse(last.env)
         [] OTHER ->
               /\ last' = Observation("process_command", last.text, "routed",
                                      last.stage, last.matches,
                                      Executed[commands][last.text].outs[last.env],
                                      "-", <<>>, last.env)
               /\ UNCHANGED conversation_history
    /\ UNCHANGED <<legacy, admin, commands, call_count, context_window, use_cloud_api,
                   openai_api_key>>

\* the timeout of the pending call expires: requests raises, the probe
\* counts as failed and the chat call as an exception
TimeoutExpires ==
    /\ last.status = "waiting"
    /\ PendingCall \in DOMAIN TimeoutOf
    /\ IF PendingCall = "probe"
       THEN Converse([last.env EXCEPT !.probe = FALSE])
       ELSE Converse([last.env EXCEPT !.chat = "exception"])
    /\ UNCHANGED <<legacy, admin, commands, call_count, context_window, use_cloud_api,
                   openai_api_key>>

\* the caller takes the response of a call that has returned
TakeReturned == last.status # "waiting" /\ TakeResponse

NextBlocking ==
    StartCommand \/ ServiceAnswers \/ TimeoutExpires \/ TakeReturned

\* a timer that was set does expire; nothing makes an external service
\* answer
SpecBlocking ==
    InitRouter /\ [][NextBlocking]_vars /\ WF_vars(TimeoutExpires)

----------------------------------------------------------------------------
(* The configuration store and the application table on their own *)

AppPaths == {"p", "q"}

\* a call on the store or the table: its arguments and what it returned
Admin(op, args, out) ==
    Observation(op, args, "-", "-", {}, out, "-", <<>>, Quiet)

\* the configuration is the default one or comes from a file without an
\* applications section
InitConfig ==
    /\ commands = get_default_commands
    /\ call_count = 0
    /\ context_window = 1
    /\ use_cloud_api = FALSE
    /\ openai_api_key = FALSE
    /\ conversation_history = <<>>
    /\ last = NoCall
    /\ config \in {default_config, config_without_applications}
    /\ config_file = config
    /\ app_commands = NoInstance
    /\ enable_llm = TRUE
    /\ CounterFileAbsent

\* AppCommands()
NewAppCommands ==
    /\ Idle
    /\ app_commands' = AppCommands_init(config)
    /\ last' = Admin("AppCommands", <<>>, Returned(<<>>, <<>>))
    /\ UNCHANGED <<legacy, enable_llm, config, config_file, commands, call_count, context_window,
                   use_cloud_api, openai_api_key, conversation_history>>

\* config.get(key, default)
ConfigGet ==
    /\ Idle
    /\ \E key \in Keys, default \in Defaults :
        /\ last' = Admin("get", <<key, default>>,
                         Returned(Config_get(config, key, default), <<>>))
        /\ UNCHANGED <<legacy, admin, commands, call_count, context_window,
                       use_cloud_api, openai_api_key, conversation_history>>

\* the keys written directly; the applications section is written through
\* AppCommands, and voice.wake_word is only read
WrittenKeys == Keys \ {<<"applications">>, <<"voice", "wake_word">>}

\* config.set(key, value)
ConfigSet ==
    /\ Idle
    /\ \E key \in WrittenKeys, v \in ScalarValues, save \in SaveOutcomes :
        LET done == Config_set(config, key, v)
        IN  /\ config' = done.config
            /\ config_file' = IF done.raised THEN config_file
                              ELSE save_config(done.config, config_file, save)
            /\ last' = Admin("set", <<key, v>>,
                             IF done.raised THEN Raised(<<>>)
                             ELSE Returned(<<"None">>, <<>>))
            /\ UNCHANGED <<legacy, enable_llm, app_commands, commands, call_count, context_window,
                           use_cloud_api, openai_api_key,
                           conversation_history>>

\* AppCommands.add_application(app_name, app_path)
AddApplication ==
    /\ Idle
    /\ app_commands.built
    /\ \E path \in AppPaths, save \in SaveOutcomes :
        LET kept == Assign(app_commands, config, path)
            done == Config_set(kept.config, AppKey, path)
        IN  /\ app_commands' = kept.inst
            /\ config' = done.config
            /\ config_file' = IF done.raised THEN config_file
                              ELSE save_config(done.config, config_file, save)
            /\ last' = Admin("add_application", <<"app", path>>,
                             Returned(IF done.raised THEN <<"False">>
                                      ELSE <<"True">>, <<>>))
            /\ UNCHANGED <<legacy, enable_llm, commands, call_count, context_window,
                           use_cloud_api, openai_api_key,
                           conversation_history>>

\* AppCommands.remove_application(app_name)
RemoveApplication ==
    /\ Idle
    /\ app_commands.built
    /\ \E save \in SaveOutcomes :
        IF Table(app_commands, config) # "absent"
        THEN LET kept == Assign(app_commands, config, "absent")
                 done == Config_set(kept.config, AppKey, "none")
             IN  /\ app_commands' = kept.inst
                 /\ config' = done.config
                 /\ config_file' =
                        IF done.raised THEN config_file
                        ELSE save_config(done.config, config_file, save)
                 /\ last' = Admin("remove_application", <<"app">>,
                                  Returned(IF done.raised THEN <<"False">>
                                           ELSE <<"True">>, <<>>))
                 /\ UNCHANGED <<legacy, enable_llm, commands, call_count, context_window,
                                use_cloud_api, openai_api_key,
                                conversation_history>>
        ELSE /\ last' = Admin("remove_application", <<"app">>,
                              Returned(<<"False">>, <<>>))
             /\ UNCHANGED <<legacy, admin, commands, call_count, context_window,
                            use_cloud_api, openai_api_key,
                            conversation_history>>

NextConfig ==
    \/ NewAppCommands
    \/ ConfigGet
    \/ ConfigSet
    \/ AddApplication
    \/ RemoveApplication
    \/ TakeResponse

SpecConfig == InitConfig /\ [][NextConfig]_vars

----------------------------------------------------------------------------
(* test.py: the earlier single-file assistant and its persisted counter *)

\* number of utterances main() answers in a session
MaxSpoken == 7

\* the acknowledgements of execute_command: the same five strings, in the
\* same order, as the replies of _handle_wake_word_call
yuki_responses == wake_responses

\* the names execute_command compares the stripped, lowered text with:
\*   ["ยูกิ", "yuki"]
yuki_names == { <<"yuki_th">>, <<"yuki">> }

\* the texts that are processed as commands without the name in front
\* (of the sixteen of the source, those written in the model's vocabulary):
\*   "สวัสดี", "hello", "hi", "สวัสดียูกิ", "ยูกิสวัสดี", "กี่โมงแล้ว"
unaddressed_commands ==
    { <<"sawatdi">>, <<"hello">>, <<"hi">>, <<"sawatdi", "yuki_th">>,
      <<"yuki_th", "sawatdi">>, <<"kimonglaeo">> }

\* process_text: "ผม" -> "ฉันเองก็", then "ครับ" -> "ค่ะ"
process_text(text) ==
    Replace(Replace(text, replacements[1].old, replacements[1].new),
            replacements[2].old, replacements[2].new)

\* json.load(file).get("count", 0), or 0 when the file does not exist; the
\* file is <<>> when absent and <<count>> once written
read_count(file) == IF file = <<>> THEN 0 ELSE file[1]

\* call_count = (call_count + 1) % 6, the value that is also written back to
\* yuki_call_count.json
next_count(file) == (read_count(file) + 1) % 6

\* the branch of execute_command that answers the bare name: the
\* incremented counter indexes yuki_responses (from 0), 5 is answered with
\* the scolding reply
bare_name_response(file) ==
    IF next_count(file) < 5
    THEN yuki_responses[next_count(file) + 1]
    ELSE wake_scolding

\* the texts whose answer is settled by the first two branches of
\* execute_command: the bare name, and a text that neither starts with the
\* name nor is one of the unaddressed commands
IsBareName(text) == Lower(Strip(Lower(text))) \in yuki_names
IsUnaddressed(text) ==
    /\ ~StartsWith(Lower(text), <<"yuki_th">>)
    /\ Lower(text) \notin unaddressed_commands

\* execute_command on such a text: response and counter file afterwards
legacy_execute_command(text, file) ==
    IF IsBareName(text)
    THEN [response |-> bare_name_response(file),
          file     |-> <<next_count(file)>>]
    ELSE [response |-> <<"...">>, file |-> file]

LegacyInputs ==
    { <<"yuki_th">>, <<"YUKI">>, <<SP, "yuki_th", SP>>, <<"x">>,
      <<"ph", "m">> }

InitLegacy ==
    /\ commands = get_default_commands
    /\ call_count = 0
    /\ context_window = 1
    /\ use_cloud_api = FALSE
    /\ openai_api_key = FALSE
    /\ conversation_history = <<>>
    /\ last = NoCall
    /\ ConfigLoaded
    /\ enable_llm = TRUE
    /\ CounterFileAbsent

\* one round of main(): the recognised text goes through process_text and
\* execute_command, and the response is spoken
LegacyCommand ==
    /\ Len(spoken) < MaxSpoken
    /\ \E heard \in LegacyInputs :
          LET text == process_text(heard)
              done == legacy_execute_command(text,
                                             yuki_call_count_json)
          IN  /\ IsBareName(text) \/ IsUnaddressed(text)
              /\ yuki_call_count_json' = done.file
              /\ spoken' = Append(spoken, [text     |-> text,
                                           response |-> done.response])
              /\ last' = Plain("legacy_execute_command", text, "-", done.response)
    /\ UNCHANGED <<admin, commands, call_count, context_window, use_cloud_api,
                   openai_api_key, conversation_history>>

NextLegacy == LegacyCommand

SpecLegacy == InitLegacy /\ [][NextLegacy]_vars

----------------------------------------------------------------------------
(* Properties *)

\* position of a stage in the order of _execute_command
StageIndex(stage) == CHOOSE i \in 1..Len(Stages) : Stages[i] = stage

\* the text handed to the engine by the observed call
UserInputOf(obs) ==
    IF obs.op = "process_command" THEN Gated[obs.text].command ELSE obs.text

\* the normalised text neither equals nor starts with a wake phrase
NeitherWake(text) ==
    LET norm == process_thai_text(clean_text(text))
    IN  \A i \in 1..Len(wake_words) :
            /\ norm # Lower(wake_words[i])
            /\ ~StartsWith(norm, Lower(wake_words[i]))

\* the call involved no routing stage, no side effect and no backend
NothingInvoked(obs) ==
    /\ obs.stage = "-"
    /\ obs.effects = <<>>
    /\ obs.backend = "-"
    /\ obs.messages = <<>>

\* C1: a routed command is handled by the first stage, in the order pattern
\* table, web search, web service, application, media, conversation, whose
\* trigger matches it, and by no later one; a command in both the web-search
\* and the media vocabulary (and in no pattern) goes to the web search.
C1_FirstMatchingStageRuns ==
    last.gate = "routed" =>
        /\ last.stage \in last.matches
        /\ \A i \in 1..(StageIndex(last.stage) - 1) : Stages[i] \notin last.matches
        /\ ({"web_search", "media"} \subseteq last.matches
            /\ "pattern" \notin last.matches => last.stage = "web_search")

C1_Witness ==
    /\ last.gate = "routed"
    /\ last.stage = "web_search"
    /\ "media" \in last.matches

\* C2 as stated: every text, the empty string included, that neither equals
\* nor starts with a wake phrase is answered "..." and nothing is invoked.
C2_Original ==
    last.op = "process_command" /\ NeitherWake(last.text) =>
        last.result = <<"...">> /\ NothingInvoked(last)

\* C2 as amended: every non-empty text (whitespace-only included) whose
\* normalised form neither equals nor starts with a wake phrase is answered
\* "...", the empty string is answered "", and in both cases no stage, no
\* handler and no backend is invoked.
C2_InertPlaceholder ==
    last.op = "process_command" /\ NeitherWake(last.text) =>
        /\ last.result = (IF last.text = <<>> THEN <<>> ELSE <<"...">>)
        /\ last.status = "returned"
        /\ NothingInvoked(last)

C2_Witness ==
    /\ last.op = "process_command"
    /\ last.text = <<SP>>
    /\ last.result = <<"...">>

\* C3: in generate_response, when the local backend passes the probe but its
\* chat call fails, the hosted API is tried next if it is configured and
\* credentialed, and the keyword table answers otherwise.
C3_FallsThroughOnFailure ==
    last.op = "generate_response" /\ last.env.probe /\ last.env.chat # "ok" =>
        IF use_cloud_api /\ openai_api_key
        THEN last.backend = "cloud"
        ELSE last.result = generate_fallback_response(last.text)

\* C4: with the local backend unreachable and the hosted API configured,
\* credentialed and answering 200 with text S, generate_response(u) returns S
\* and a history below its bound grows by exactly (user, u), (assistant, S).
C4_CloudAnswerIsRecorded ==
    [][ /\ last'.op = "generate_response"
        /\ ~last'.env.probe
        /\ use_cloud_api /\ openai_api_key
        /\ last'.env.chat = "ok"
        => /\ last'.result = last'.env.reply
           /\ last'.status = "returned"
           /\ (Len(conversation_history) < 2 * context_window =>
                 conversation_history' =
                    conversation_history
                    \o <<Msg("user", last'.text),
                         Msg("assistant", last'.env.reply)>>) ]_vars

C4_Witness ==
    /\ last.op = "generate_response"
    /\ ~last.env.probe
    /\ last.backend = "cloud"
    /\ last.env.chat = "ok"
    /\ last.result = last.env.reply
    /\ conversation_history =
          <<Msg("user", last.text), Msg("assistant", last.env.reply)>>

\* C5: with the local probe failing and the configured, credentialed hosted
\* API unreachable or answering non-200, generate_response returns a
\* response of the keyword table and leaves the history unchanged.
C5_BothDownKeywordTable ==
    [][ /\ last'.op = "generate_response"
        /\ ~last'.env.probe
        /\ use_cloud_api /\ openai_api_key
        /\ last'.env.chat \in {"non200", "exception"}
        => /\ last'.result = generate_fallback_response(last'.text)
           /\ conversation_history' = conversation_history ]_vars

\* the n most recent of the messages s, in their order (none for n = 0)
MostRecent(s, n) ==
    IF n >= Len(s) THEN s ELSE SubSeq(s, Len(s) - n + 1, Len(s))

\* C6: for every window size N, N = 0 included, the history holds at most N
\* exchanges (2N messages) in every reachable state; a successful response
\* that would exceed the bound drops the oldest messages and leaves exactly
\* the most recent N exchanges, in their original order.
C6_HistoryWithinWindow ==
    /\ [](Len(conversation_history) <= 2 * context_window)
    /\ [][ last'.backend \in {"ollama", "cloud"} /\ last'.env.chat = "ok" =>
             conversation_history' =
                MostRecent(conversation_history
                           \o <<Msg("user", UserInputOf(last')),
                                Msg("assistant", last'.env.reply)>>,
                           2 * context_window) ]_vars

\* C7: the history changes only when a pair (user, assistant) is appended
\* after a backend call that returned status 200 (the oldest messages beyond
\* the window being dropped) and when clear_history empties it; a failed
\* backend call, the keyword fallback, a bare wake call, an unrelated
\* utterance and a command handled by a pattern or a domain handler leave it
\* unchanged.
C7_HistoryFrame ==
    [][ conversation_history' # conversation_history =>
          \/ /\ last'.op = "clear_history"
             /\ conversation_history' = <<>>
          \/ /\ last'.backend \in {"ollama", "cloud"}
             /\ last'.env.chat = "ok"
             /\ \E k \in 0..Len(conversation_history) :
                   conversation_history' =
                      From(conversation_history, k + 1)
                      \o <<Msg("user", UserInputOf(last')),
                           Msg("assistant", last'.env.reply)>> ]_vars

C7_Witness ==
    /\ last.op = "process_command"
    /\ last.stage \in {"pattern", "web_search", "web_service", "app", "media"}
    /\ conversation_history # <<>>

\* C8: the N-th bare wake call since startup returns the N-th of the five
\* acknowledgements for N = 1..5 and the scolding reply, which is none of
\* them, for N > 5; the counter moves by one per bare wake call and not
\* otherwise, and no acknowledgement repeats.
C8_NthWakeReply ==
    [][ IF last'.op = "process_command" /\ last'.gate = "bare"
        THEN /\ call_count' = call_count + 1
             /\ call_count' \in 1..5 => last'.result = wake_responses[call_count']
             /\ call_count' > 5 => last'.result = wake_scolding
             /\ \A i, j \in 1..5 :
                   i # j => wake_responses[i] # wake_responses[j]
             /\ \A i \in 1..5 : wake_responses[i] # wake_scolding
        ELSE call_count' = call_count ]_vars

C8_Witness ==
    /\ last.gate = "bare"
    /\ call_count = 6
    /\ last.result = wake_scolding

\* C9: process_command returns a string and raises no exception, for every
\* text and every pattern table; so does generate_response.
C9_AlwaysReturnsString ==
    last.op \in {"process_command", "generate_response"} =>
        last.status = "returned"

\* the side effect the call ended on was one that raised
FailedKinds ==
    {"open_url_failed", "launch_failed", "playonyt_failed", "speak_failed",
     "urlopen_failed"}

EndedOnFailure(obs) ==
    obs.effects # <<>> /\ obs.effects[Len(obs.effects)].kind \in FailedKinds

\* the strings the handlers answer when an action failed begin with one of
\* "ขออภัยค่ะ", "เกิดข้อผิดพลาด...", "ไม่สามารถ..."
IsApology(result) ==
    /\ result # <<>>
    /\ Head(result) \in {"kho_aphai_kha", "koet_khophitphlat_nai_kan",
                         "koet_khophitphlat_nai_kan_pramuanphon_khamsang_kha",
                         "mai_samat"}

\* C10: when a side-effecting action of a routing stage raises a platform
\* error, the error is caught inside the stage, process_command returns an
\* apology string and no exception reaches its caller.
C10_SideEffectErrorsAreCaught ==
    last.op = "process_command" /\ EndedOnFailure(last) =>
        last.status = "returned" /\ IsApology(last.result)

\* the command that process_command hands to _execute_command
CommandOf(obs) == gate_of(obs.text).command

\* the handler of the media stage that takes the command
MediaHandlerOf(command) ==
    IF is_music_command(Lower(command)) THEN "music"
    ELSE IF is_video_command(Lower(command)) THEN "video"
    ELSE "other"

\* the observed call was taken by a handler that works on an extracted query
QueryHandlerOf(obs) ==
    IF obs.stage = "web_search" THEN "web_search"
    ELSE IF obs.stage = "media" THEN MediaHandlerOf(CommandOf(obs))
    ELSE "other"

\* the 'please specify' prompts of the three handlers
PleaseSpecify ==
    [web_search |-> <<"karuna_rabu_sing_thi_tongkan_khonha_kha">>,
     music      |-> <<"karuna_rabu", "phleng", "rue_sinlapin_thi_tongkan",
                      "fang", "kha">>,
     video      |-> <<"karuna_rabu", "widio", "thi_tongkan", "du", "kha">>]

\* the extraction triggers of the three handlers
TriggersOf ==
    [web_search |-> search_triggers,
     music      |-> music_triggers,
     video      |-> video_triggers]

\* the part of a search or play URL after which the query is written
QueryJunctions == {"/search?q=", "/results?search_query=", "/search/", "?q="}

\* the side effect was given a query that is not empty
HasQuery(effect) ==
    IF effect.kind \in {"playonyt", "playonyt_failed"}
    THEN effect.arg # <<>>
    ELSE effect.arg[Len(effect.arg)] \notin QueryJunctions

\* C11: in the web-search, music and video handlers an empty query after
\* the removal of the trigger is answered by the handler's 'please specify'
\* prompt with no URL open and no playback, and no side effect is ever
\* issued with an empty query.
C11_EmptyQueryPrompts ==
    last.op = "process_command" /\ QueryHandlerOf(last) # "other" =>
        LET handler == QueryHandlerOf(last)
            query == extract_query_from_command(CommandOf(last),
                                                TriggersOf[handler])
        IN  /\ query = <<>> =>
                 /\ last.result = PleaseSpecify[handler]
                 /\ last.status = "returned"
                 /\ last.effects = <<>>
            /\ \A i \in 1..Len(last.effects) : HasQuery(last.effects[i])

C11_Witness ==
    /\ last.op = "process_command"
    /\ last.stage = "web_search"
    /\ CommandOf(last) = <<"search">>
    /\ last.result = PleaseSpecify["web_search"]
    /\ last.effects = <<>>

\* the entries of the table whose pattern matches the command
MatchingEntries(table, command) ==
    {i \in 1..Len(table) : pattern_matches(table[i].pattern, Lower(command))}

\* the first of a non-empty set of entries, in table order
FirstOf(entries) == CHOOSE i \in entries : \A j \in entries : i <= j

\* C12: when several entries of the pattern table match a command, the
\* action executed is that of the entry that comes first in table order,
\* and the response and the side effects are those of that action alone.
C12_FirstEntryWins ==
    last.op = "process_command" /\ last.gate = "routed"
    /\ MatchingEntries(commands, CommandOf(last)) # {} =>
        LET entry == commands[FirstOf(MatchingEntries(commands, CommandOf(last)))]
            out == execute_action(entry.action, CommandOf(last), last.env)
        IN  /\ last.stage = "pattern"
            /\ last.status = out.status
            /\ last.result = out.result
            /\ last.effects = out.effects

C12_Witness ==
    /\ last.op = "process_command"
    /\ last.stage = "pattern"
    /\ \E i, j \in MatchingEntries(commands, CommandOf(last)) :
          i < j /\ commands[i].action = "time" /\ commands[j].action = "shutdown"
    /\ last.result = get_current_time
    /\ last.effects = <<>>

\* one of the four classifiers after the pattern table takes the command
ClassifierMatches(command) ==
    \/ is_web_search(command)
    \/ is_web_service_command(command)
    \/ is_app_command(command)
    \/ is_media_command(command)

\* the kinds of side effect that only the stages after the pattern table issue
LaterStageKinds ==
    {"launch", "launch_failed", "playonyt", "playonyt_failed"}

\* C13: a wake-prefixed command that matches a pattern-table entry is
\* answered by that entry's action, with no backend contacted and no launch
\* or playback, whichever classifiers match it too; and the conversational
\* fallback runs only for a command that matches no entry and no classifier.
C13_PatternShadowsLaterStages ==
    last.op = "process_command" /\ last.gate = "routed" =>
        LET command == CommandOf(last)
            entries == MatchingEntries(commands, command)
        IN  /\ entries # {} =>
                 /\ last.stage = "pattern"
                 /\ last.result =
                       execute_action(commands[FirstOf(entries)].action,
                                      command, last.env).result
                 /\ last.backend = "-"
                 /\ last.messages = <<>>
                 /\ \A i \in 1..Len(last.effects) :
                       last.effects[i].kind \notin LaterStageKinds
                 /\ commands[FirstOf(entries)].action = "time" =>
                       last.result = get_current_time /\ last.effects = <<>>
            /\ last.stage = "llm" =>
                 entries = {} /\ ~ClassifierMatches(command)

C13_Witness ==
    /\ last.op = "process_command"
    /\ last.stage = "pattern"
    /\ is_web_search(CommandOf(last))
    /\ commands[FirstOf(MatchingEntries(commands, CommandOf(last)))].action
          = "time"
    /\ last.result = get_current_time

\* the texts q for which the command is a web-search trigger, a space and q
SpokenQueries(command) ==
    { From(command, Len(search_triggers[i]) + 2) :
        i \in { j \in 1..Len(search_triggers) :
                  StartsWith(command, search_triggers[j] \o <<SP>>) } }

\* the query parameter of a search URL: what follows the junction
QueryParameter(url) ==
    IF \E i \in 1..Len(url) : url[i] \in QueryJunctions
    THEN From(url, 1 + CHOOSE i \in 1..Len(url) : url[i] \in QueryJunctions)
    ELSE <<>>

\* C14: for a command made of a web-search trigger and a non-empty query q
\* that matches no pattern entry, the router performs a web search whose
\* URL query parameter is exactly q, and the confirmation contains q.
C14_QueryIsWhatWasSpoken ==
    last.op = "process_command" /\ last.gate = "routed" =>
        \A q \in SpokenQueries(CommandOf(last)) :
            q # <<>> /\ Strip(q) = q /\ MatchingEntries(commands, q) = {} =>
               /\ last.stage = "web_search"
               /\ last.effects # <<>>
               /\ \A i \in 1..Len(last.effects) :
                     QueryParameter(last.effects[i].arg) = q
               /\ last.status = "returned" => Contains(last.result, q)

\* s with its first occurrence of sub removed (s when sub is absent)
RemoveFirst(s, sub) ==
    IF Find(s, sub) = 0 THEN s
    ELSE SubSeq(s, 1, Find(s, sub) - 1) \o From(s, Find(s, sub) + Len(sub))

\* the first trigger of the list that the text contains (0 when none)
FirstContained(text, trigger_words) ==
    IF AnyIn(text, trigger_words)
    THEN CHOOSE i \in 1..Len(trigger_words) :
            /\ Contains(text, trigger_words[i])
            /\ \A j \in 1..(i - 1) : ~Contains(text, trigger_words[j])
    ELSE 0

\* C15: extract_query_from_command removes exactly one occurrence of the
\* first matching trigger, the first one, and keeps every other part of the
\* command, later occurrences of the trigger included.
C15_OnlyFirstOccurrenceRemoved ==
    last.op = "process_command" /\ QueryHandlerOf(last) # "other" =>
        LET trigger_words == TriggersOf[QueryHandlerOf(last)]
            command_lower == Lower(CommandOf(last))
            k == FirstContained(command_lower, trigger_words)
        IN  k # 0 =>
              /\ extract_query_from_command(CommandOf(last), trigger_words)
                    = Strip(RemoveFirst(command_lower, trigger_words[k]))
              /\ last.stage = "web_search" =>
                    \A i \in 1..Len(last.effects) :
                       QueryParameter(last.effects[i].arg)
                          = Strip(RemoveFirst(command_lower, trigger_words[k]))

\* C16: the search URL of the router's web-search stage is built for the
\* engine whose name appears in the command (youtube, bing, duckduckgo) and
\* for the default engine (Google) only when no engine is named.
C16_EngineNamedInCommand ==
    last.op = "process_command" /\ last.stage = "web_search" =>
        \A i \in 1..Len(last.effects) :
            StartsWith(last.effects[i].arg,
                       search_engines[determine_search_engine(CommandOf(last))])

\* the site names for which the command is a web-service trigger, a space
\* and the name
SiteNames(command) ==
    { From(command, Len(web_triggers[i]) + 2) :
        i \in { j \in 1..Len(web_triggers) :
                  StartsWith(command, web_triggers[j] \o <<SP>>) } }

\* the URL documented for a site name: the configured URL of the service of
\* that name, else https://<name without known TLD suffix>.com
SiteUrl(site) ==
    IF \E i \in 1..Len(web_services) : web_services[i].name = site
    THEN web_services[CHOOSE i \in 1..Len(web_services) :
                         web_services[i].name = site].url
    ELSE construct_website_url(site)

\* the reply of the web handler to a command it does not understand
WebNotUnderstood == <<"mai_khaochai_khamsang", "web_th", "kha">>

\* C17: a command that reaches the web-service stage with one of the six
\* trigger phrases followed by a non-empty site name gets a URL of that
\* site opened; it is never answered 'not understood' and never searched.
C17_SiteIsOpened ==
    last.op = "process_command" /\ last.stage = "web_service" =>
        \A site \in SiteNames(Lower(CommandOf(last))) :
            site # <<>> =>
               /\ last.result # WebNotUnderstood
               /\ last.effects # <<>>
               /\ \A i \in 1..Len(last.effects) :
                     /\ last.effects[i].kind \in {"open_url", "open_url_failed"}
                     /\ last.effects[i].arg = SiteUrl(site)

\* the trigger phrases of the router's media classifier
MediaPhrases ==
    << <<"len", "phleng">>, <<"play", SP, "music">>, <<"fang", "phleng">>,
       <<"listen", SP, "to", SP, "music">>, <<"du", "widio">>,
       <<"watch", SP, "video">>, <<"poet", "phleng">>, <<"open", SP, "music">>,
       <<"poet", "widio">>, <<"open", SP, "video">> >>

\* the texts for which the command is a media trigger, a space and the text
MediaTexts(command) ==
    { From(command, Len(MediaPhrases[i]) + 2) :
        i \in { j \in 1..Len(MediaPhrases) :
                  StartsWith(command, MediaPhrases[j] \o <<SP>>) } }

\* the query a play or search side effect was issued for
IssuedFor(effect, query) ==
    IF effect.kind \in {"playonyt", "playonyt_failed"}
    THEN effect.arg = query
    ELSE QueryParameter(effect.arg) = Quote(query)

\* C18: a command that reaches the media stage with one of the ten trigger
\* phrases followed by non-empty text gets a search or play action issued
\* for exactly that text; the 'please specify' prompt is returned only when
\* no text remains after the trigger.
C18_MediaQueryIsTheText ==
    last.op = "process_command" /\ last.stage = "media" =>
        \A query \in MediaTexts(Lower(CommandOf(last))) :
            query # <<>> =>
               /\ last.result \notin {PleaseSpecify["music"], PleaseSpecify["video"]}
               /\ last.effects # <<>>
               /\ \A i \in 1..Len(last.effects) :
                     IssuedFor(last.effects[i], query)

\* the platform names the media handler scans the command for
PlatformNames ==
    [spotify |-> <<"spotify">>, youtube |-> <<"youtube">>,
     netflix |-> <<"netflix">>, apple_music |-> <<"apple", SP, "music">>,
     soundcloud |-> <<"soundcloud">>, deezer |-> <<"deezer">>]

\* the platforms whose name appears in the command
NamedPlatforms(command) ==
    {p \in DOMAIN PlatformNames : Contains(Lower(command), PlatformNames[p])}

\* the platform a play or search side effect goes to
PlatformOf(effect) ==
    IF effect.kind \in {"playonyt", "playonyt_failed"} THEN "youtube"
    ELSE IF effect.arg[2] = "apple" THEN "apple_music"
    ELSE effect.arg[2]

\* C19: the music and video handlers issue their action against the
\* platform whose name appears in the command, and against YouTube only
\* when no platform name appears.
C19_PlatformNamedInCommand ==
    last.op = "process_command" /\ last.stage = "media"
    /\ MediaHandlerOf(CommandOf(last)) \in {"music", "video"} =>
        \A i \in 1..Len(last.effects) :
            IF NamedPlatforms(CommandOf(last)) = {}
            THEN PlatformOf(last.effects[i]) = "youtube"
            ELSE PlatformOf(last.effects[i]) \in NamedPlatforms(CommandOf(last))

\* the configured applications the command names, by name or by alias
ConfiguredNamed(command) ==
    {i \in 1..Len(applications) :
        \/ Contains(Lower(command), applications[i].name)
        \/ \E a \in 1..Len(app_aliases) :
              /\ app_aliases[a].app = applications[i].name
              /\ Contains(Lower(command), app_aliases[a].alias)}

\* the well-known applications the command names
CommonNamed(command) ==
    {i \in 1..Len(common_apps) : AnyIn(Lower(command), common_apps[i].aliases)}

\* a well-known install location of the platform holds the application
AlternativeFound(env) == env.platform \in {"macos", "windows"} /\ env.alt_exists

\* the replies of the application handler when nothing was launched
NotFoundReplies ==
    { <<"mai_phop", SP>> \o name \o <<SP, "nai_rabop_kha">> :
        name \in {applications[i].name : i \in 1..Len(applications)}
                 \cup {common_apps[i].app : i \in 1..Len(common_apps)} }
    \cup { <<"mai_khaochai_khamsang", "poet", "aep", "phlikhechan", "kha">> }

\* C20: in the application stage, a command that names a configured
\* application whose path exists gets exactly that path launched; when the
\* configured path does not exist (or the application is a well-known one
\* without configured path) the well-known location of the platform is
\* launched if it exists; when nothing is found the reply is 'not found' or
\* 'not understood' and nothing is launched.
C20_ApplicationLaunch ==
    last.op = "process_command" /\ last.stage = "app" =>
        LET command == CommandOf(last)
            configured == ConfiguredNamed(command)
            known == configured # {} \/ CommonNamed(command) # {}
        IN  IF configured # {} /\ last.env.exists
            THEN /\ Len(last.effects) = 1
                 /\ last.effects[1].kind \in {"launch", "launch_failed"}
                 /\ \E i \in configured :
                       /\ last.effects[1].arg = applications[i].path
                       /\ last.effects[1].kind = "launch" =>
                             last.result = opened_reply(applications[i].name)
            ELSE IF known /\ AlternativeFound(last.env)
            THEN /\ Len(last.effects) = 1
                 /\ last.effects[1].kind \in {"launch", "launch_failed"}
                 /\ \A i \in configured :
                       last.effects[1].arg # applications[i].path
            ELSE /\ last.effects = <<>>
                 /\ last.result \in NotFoundReplies

C20_Witness ==
    /\ last.op = "process_command"
    /\ last.stage = "app"
    /\ CommandOf(last) = <<"poet", "aep", SP, "code">>
    /\ last.env.exists
    /\ last.effects = <<Effect("launch", <<"/usr/bin/", "code">>)>>

\* the configured wake phrases, primary and alternates, case-folded
WakePhrases == {Lower(wake_words[i]) : i \in 1..Len(wake_words)}

\* the three classes of the wake gate, as documented
WakeClass(norm) ==
    IF Lower(Strip(norm)) \in WakePhrases THEN "BareWake"
    ELSE IF \E w \in WakePhrases : StartsWith(Lower(norm), w)
         THEN "PrefixedCommand"
         ELSE "Unrelated"

\* C21: the wake gate puts every normalized text into exactly one of
\* BareWake (equal to a wake phrase), PrefixedCommand (not BareWake, starts
\* with a wake phrase) and Unrelated (otherwise), and process_command takes
\* the bare-wake, the routed and the inert path accordingly.
C21_WakeGateClasses ==
    last.op = "process_command" /\ last.text # <<>> =>
        LET class == WakeClass(Normalize(last.text))
        IN  /\ class = "BareWake" <=> last.gate = "bare"
            /\ class = "PrefixedCommand" <=> last.gate = "routed"
            /\ class = "Unrelated" <=> last.gate = "unrelated"
            /\ last.gate = "bare" =>
                  last.result = wake_reply(call_count) /\ last.stage = "-"
            /\ last.gate = "routed" =>
                  \E k \in 1..Len(Stages) : last.stage = Stages[k]
            /\ last.gate = "unrelated" =>
                  last.result = <<"...">> /\ last.stage = "-"

C21_Witness ==
    /\ last.op = "process_command"
    /\ last.gate = "routed"
    /\ Head(last.text) = "YUKI"
    /\ WakeClass(Normalize(last.text)) = "PrefixedCommand"

\* the wake phrases that are a case-insensitive prefix of the text
PrefixesOf(text) ==
    {i \in 1..Len(wake_words) : StartsWith(Lower(text), Lower(wake_words[i]))}

\* every symbol of s is whitespace
AllWhitespace(s) == \A i \in 1..Len(s) : s[i] \in Whitespace

\* C22: _extract_command removes the first configured wake phrase (primary,
\* then alternates) that is a case-insensitive prefix of the text and trims
\* the remainder, which is otherwise not altered; a text with no wake
\* phrase as prefix is returned unchanged.
C22_WakePrefixRemoved ==
    last.op = "extract_command" =>
        IF PrefixesOf(last.text) = {}
        THEN last.result = last.text
        ELSE LET n == Len(wake_words[FirstOf(PrefixesOf(last.text))])
             IN  /\ last.result = <<>> \/
                       /\ Head(last.result) \notin Whitespace
                       /\ last.result[Len(last.result)] \notin Whitespace
                 /\ \E i \in (n + 1)..(Len(last.text) + 1) :
                       /\ AllWhitespace(SubSeq(last.text, n + 1, i - 1))
                       /\ last.result
                             = SubSeq(last.text, i, i + Len(last.result) - 1)
                       /\ AllWhitespace(From(last.text, i + Len(last.result)))

C22_Witness ==
    /\ last.op = "extract_command"
    /\ last.text = <<"YUKI", SP, "x">>
    /\ last.result = <<"x">>

\* C23: the normalizer of process_command (clean_text followed by
\* process_thai_text) is idempotent: normalizing a normalized text changes
\* nothing.
C23_NormalizeIdempotent ==
    last.op = "normalize" => Normalize(last.result) = last.result

C23_Witness ==
    /\ last.op = "normalize"
    /\ last.text = <<"YUKI", SP, SP, SP, "ph", "m">>
    /\ last.result # last.text
    /\ Normalize(last.result) = last.result

\* the words of a text: its maximal runs of symbols that are not whitespace
RECURSIVE WordsOf(_)
WordsOf(s) ==
    IF LStrip(s) = <<>> THEN <<>>
    ELSE LET t == LStrip(s)
             n == IF \E i \in 1..Len(t) : t[i] \in Whitespace
                  THEN (CHOOSE i \in 1..Len(t) :
                          /\ t[i] \in Whitespace
                          /\ \A j \in 1..(i - 1) : t[j] \notin Whitespace) - 1
                  ELSE Len(t)
         IN  <<SubSeq(t, 1, n)>> \o WordsOf(From(t, n + 1))

\* C24: clean_text returns, for every text, the text in lower case without
\* leading or trailing whitespace and with every run of whitespace turned
\* into one space; the empty text gives the empty text.
C24_CleanTextContract ==
    last.op = "clean_text" =>
        /\ last.status = "returned"
        /\ last.text = <<>> => last.result = <<>>
        /\ last.result = Lower(last.result)
        /\ WordsOf(last.result) = WordsOf(Lower(last.text))
        /\ last.result # <<>> =>
              /\ Head(last.result) \notin Whitespace
              /\ last.result[Len(last.result)] \notin Whitespace
        /\ \A i \in 1..Len(last.result) :
              last.result[i] \in Whitespace =>
                 /\ last.result[i] = SP
                 /\ i < Len(last.result) => last.result[i + 1] \notin Whitespace

C24_Witness ==
    /\ last.op = "clean_text"
    /\ last.text = <<"YUKI", TAB, "x">>
    /\ last.result = <<"yuki", SP, "x">>

\* C25: the output of process_thai_text contains neither the pronoun "ผม"
\* nor the particle "ครับ", whatever the input: no replacement re-creates a
\* replaced phrase.
C25_NoMaleForms ==
    last.op = "process_thai_text" =>
        /\ ~Contains(last.result, <<"ph", "m">>)
        /\ ~Contains(last.result, <<"kh", "r", "han", "b">>)

C25_Witness ==
    /\ last.op = "process_thai_text"
    /\ last.text = <<"ph", "kh", "r", "han", "b", "m">>
    /\ last.result = <<"ph", "kh", "ek", "a", "m">>

\* C26: every external call made while an utterance is processed is bounded
\* by a timeout, so that process_command returns even if the external
\* service never answers.
C26_EveryCallComesBack ==
    [](last.status = "waiting" => <>(last.status # "waiting"))

----------------------------------------------------------------------------
(* The application table *)

\* the application names an instance built now would list: in this process,
\* from the configuration in memory; after a restart, from the file
ListedByNewInstance(cfg) == list_available_apps(AppCommands_init(cfg), cfg)

\* C27: add_application(name, path) returning True leaves name -> path in
\* the table of the instance, in the persisted configuration and in the
\* table of every instance constructed afterwards; remove_application(name)
\* returning True leaves name out of list_available_apps() of the instance
\* and of every instance constructed afterwards (so that removing what was
\* added restores the table); it returns False when the name is not there
C27_AddAndRemoveApplication ==
    /\ (last.op = "add_application" /\ last.result = <<"True">>) =>
          /\ Table(app_commands, config) = last.text[2]
          /\ config_file[<<"applications">>] = "dict"
          /\ config_file[AppKey] = last.text[2]
          /\ Table(AppCommands_init(config), config) = last.text[2]
          /\ Table(AppCommands_init(config_file), config_file) = last.text[2]
    /\ (last.op = "remove_application" /\ last.result = <<"True">>) =>
          /\ list_available_apps(app_commands, config) = {}
          /\ ListedByNewInstance(config) = {}
          /\ ListedByNewInstance(config_file) = {}
    /\ (last.op = "remove_application" /\ last.result = <<"False">>) =>
          list_available_apps(app_commands, config) = {}

\* the two halves of C27 with a file that takes every write, used to tell
\* the defects apart
AddKeepsItsPromise ==
    (/\ last.op = "add_application"
     /\ last.result = <<"True">>
     /\ config_file = config) =>
          /\ Table(app_commands, config) = last.text[2]
          /\ Table(AppCommands_init(config), config) = last.text[2]
          /\ Table(AppCommands_init(config_file), config_file) = last.text[2]

RemoveKeepsItsPromise ==
    (last.op = "remove_application" /\ last.result = <<"True">>) =>
          /\ list_available_apps(app_commands, config) = {}
          /\ ListedByNewInstance(config) = {}

----------------------------------------------------------------------------
(* Config.get and Config.set *)

Prefixes(key) == { SubSeq(key, 1, n) : n \in 1..Len(key) }

\* a segment of the key is missing, or a value on the way to it is not a
\* mapping
Unreachable(cfg, key) ==
    \/ \E p \in Prefixes(key) : cfg[p] = "absent"
    \/ \E p \in Prefixes(key) \ {key} : cfg[p] # "dict"

\* get(key, default) returned the default for an unreachable key and the
\* stored value otherwise
GetContract ==
    last.op = "get" =>
        LET key == last.text[1]
            default == last.text[2]
        IN  last.result = IF Unreachable(config, key) THEN default
                          ELSE Value(config, key)

\* what get returns for a key, whatever the default given
Reads(cfg, key) == [d \in Defaults |-> Config_get(cfg, key, d)]

\* this step is a set(key, v) that returned
SetReturns == last.op = "none" /\ last'.op = "set" /\ last'.status = "returned"

Related(a, b) == a = b \/ IsProperPrefix(a, b) \/ IsProperPrefix(b, a)

\* C28 as stated: get(key, default) returns the default whenever a segment
\* of the key is missing or an intermediate value is not a mapping, and the
\* stored value otherwise; after set(key, v), get(key) returns v and the
\* value of every other key is unchanged
C28_SetLeavesEveryOtherKey ==
    /\ []GetContract
    /\ [][SetReturns =>
            LET key == last'.text[1]
                v == last'.text[2]
            IN  /\ \A d \in Defaults : Config_get(config', key, d) = Scalar(v)
                /\ \A k \in Keys \ {key} :
                      Reads(config', k) = Reads(config, k)]_vars

\* C28 amended: get as stated; after set(key, v) returns, get(key) returns v
\* and the value of every key that is neither a prefix nor an extension of
\* key is unchanged
C28_SetLeavesUnrelatedKeys ==
    /\ []GetContract
    /\ [][SetReturns =>
            LET key == last'.text[1]
                v == last'.text[2]
            IN  /\ \A d \in Defaults : Config_get(config', key, d) = Scalar(v)
                /\ \A k \in { k2 \in Keys : ~Related(k2, key) } :
                      Reads(config', k) = Reads(config, k)]_vars

\* set("voice.language", v) returned while the sibling voice.wake_word and
\* the unrelated applications section hold values
C28_Witness ==
    /\ last.op = "set"
    /\ last.status = "returned"
    /\ last.text[1] = <<"voice", "language">>
    /\ config[<<"voice", "wake_word">>] = "yuki_th"
    /\ config[AppKey] = "p"
    /\ config[<<"voice", "language">>] = last.text[2]

----------------------------------------------------------------------------
(* The keyword fallback *)

\* the groups of fallback_groups in the order greeting, identity, gratitude,
\* help, food, country
GreetingIdentityGratitudeHelp == <<1, 2, 4, 3, 5, 6>>

\* the canned response of the first group, in the given order, one of whose
\* keywords is contained in the lowercased input; the deflection when there
\* is none
FirstGroupResponse(order, user_input) ==
    LET hits == { i \in 1..Len(order) :
                    AnyIn(Lower(user_input), fallback_groups[order[i]].words) }
    IN  IF hits = {} THEN fallback_deflection
        ELSE fallback_groups[
                 order[CHOOSE i \in hits : \A j \in hits : i <= j]].response

\* C29: the keyword fallback returns the canned response of the first
\* keyword group, in the order greeting, identity, gratitude, help, food,
\* country, one of whose keywords is contained case-insensitively in the
\* input, and the generic deflection when no group matches
C29_FallbackGroupOrder ==
    (last.op = "generate_response" /\ last.backend = "none") =>
        last.result =
            FirstGroupResponse(GreetingIdentityGratitudeHelp, last.text)

\* the same with the groups in the order of the if/elif chain
FallbackFollowsChain ==
    (last.op = "generate_response" /\ last.backend = "none") =>
        last.result = FirstGroupResponse(<<1, 2, 3, 4, 5, 6>>, last.text)

----------------------------------------------------------------------------
(* The call counter *)

\* the utterances whose normalized form is a wake phrase
BareWakeUtterances ==
    { text \in Utterances :
        text # <<>> /\ WakeClass(Normalize(text)) = "BareWake" }

\* the utterance answered in this step is a bare wake call
BareWakeAnswered ==
    /\ last.op = "none"
    /\ last'.op = "process_command"
    /\ last'.text \in BareWakeUtterances

\* C30: the call counter starts at 0, grows by exactly 1 on every bare wake
\* utterance and is changed by nothing else: unrelated, empty and
\* wake-prefixed utterances leave it as it is, and it never decreases or
\* returns to 0 during a session
C30_CallCounterFrame ==
    /\ call_count = 0
    /\ [][ /\ BareWakeAnswered => call_count' = call_count + 1
           /\ ~BareWakeAnswered => call_count' = call_count
           /\ call_count' >= call_count ]_vars

\* an unrelated, an empty or a wake-prefixed utterance was answered after two
\* bare wake calls
C30_Witness ==
    /\ call_count = 2
    /\ last.op = "process_command"
    /\ last.gate \in {"unrelated", "empty", "routed"}

----------------------------------------------------------------------------
(* The system prompt *)

\* C31: every message list sent to a backend starts with the fixed system
\* prompt; the history never holds the system prompt (it holds user and
\* assistant messages only), so neither eviction nor clear_history touches
\* the prompt
C31_SystemPromptLeadsEveryCall ==
    /\ last.backend \in {"ollama", "cloud"} =>
          /\ last.messages # <<>>
          /\ Head(last.messages) = Msg("system", system_prompt)
    /\ \A i \in 1..Len(conversation_history) :
          /\ conversation_history[i].role \in {"user", "assistant"}
          /\ conversation_history[i] # Msg("system", system_prompt)

\* a backend was sent the prompt, a message of the history and the new turn
C31_Witness ==
    /\ last.backend \in {"ollama", "cloud"}
    /\ Len(last.messages) >= 3
    /\ Head(last.messages) = Msg("system", system_prompt)
    /\ \E i \in 2..Len(last.messages) : last.messages[i].role = "assistant"

----------------------------------------------------------------------------
(* The speak collaborator *)

\* the calls of voice_engine.speak made during the call, answered or not
SpeakCalls(obs) ==
    { i \in 1..Len(obs.effects) :
        obs.effects[i].kind \in {"speak", "speak_failed"} }

\* C32: the router calls the speak collaborator only while it executes the
\* shutdown action, and then with the farewell message; no other pattern
\* action, no classifier stage, no bare wake call and no fallback response
\* calls it
C32_SpeakOnlyOnShutdown ==
    SpeakCalls(last) # {} =>
        /\ last.op = "process_command"
        /\ last.gate = "routed"
        /\ last.stage = "pattern"
        /\ action_of(commands, CommandOf(last)) = "shutdown"
        /\ \A i \in SpeakCalls(last) : last.effects[i].arg = shutdown_response

\* the shutdown action spoke its farewell
C32_Witness ==
    /\ last.stage = "pattern"
    /\ last.effects = <<Effect("speak", shutdown_response)>>
    /\ last.result = shutdown_response

----------------------------------------------------------------------------
(* Stopping the application *)

\* _handle_command stops the application after the call observed
Stopped(obs) ==
    /\ obs.op = "process_command"
    /\ obs.status = "returned"
    /\ stop_called(obs.result)

\* C33: the application stops only when the utterance was routed to the
\* shutdown action: no bare wake reply (whatever the call counter), no inert
\* reply, no confirmation of a domain handler and no conversational reply
\* makes _handle_command call stop()
C33_StopOnlyOnShutdown ==
    Stopped(last) =>
        /\ last.gate = "routed"
        /\ last.stage = "pattern"
        /\ action_of(commands, CommandOf(last)) = "shutdown"

----------------------------------------------------------------------------
(* Trigger lists and the extracted query *)

\* a occurs in b and is shorter than b
ProperSubstring(a, b) == Len(a) < Len(b) /\ Contains(b, a)

\* no phrase of the list comes after a proper substring of itself
LongestFirst(triggers) ==
    \A i, j \in 1..Len(triggers) :
        i < j => ~ProperSubstring(triggers[i], triggers[j])

\* the triggers of the list the command starts with
LeadingTriggers(command, triggers) ==
    { i \in 1..Len(triggers) : StartsWith(command, triggers[i]) }

\* C34: in every trigger list used for query extraction (web search, music,
\* video) no phrase is preceded by a proper substring of itself, so that for
\* a command made of the longest matching trigger followed by X the query
\* extracted is exactly X, with no fragment of the trigger left in it
C34_LongestTriggerRemoved ==
    last.op = "extract_query_from_command" =>
        LET triggers == extraction_triggers[last.gate]
            leading == LeadingTriggers(last.text, triggers)
            longest == CHOOSE i \in leading :
                          \A j \in leading :
                              Len(triggers[j]) <= Len(triggers[i])
        IN  /\ LongestFirst(triggers)
            /\ last.result = From(last.text, Len(triggers[longest]) + 2)

----------------------------------------------------------------------------
(* The shape of the history *)

\* the messages are whole exchanges: a user message, then the assistant's
Exchanges(messages) ==
    /\ Len(messages) % 2 = 0
    /\ \A i \in 1..Len(messages) :
          messages[i].role = IF i % 2 = 1 THEN "user" ELSE "assistant"

\* C35: in every reachable state the conversation history has even length
\* and its roles alternate user, assistant, ... starting with user; eviction
\* never splits an exchange
C35_HistoryIsWholeExchanges ==
    Exchanges(conversation_history)

\* a successful call made with a full history: the oldest exchange was
\* evicted and the new one is what the history holds
C35_Witness ==
    /\ last.backend \in {"ollama", "cloud"}
    /\ last.env.chat = "ok"
    /\ context_window = 1
    /\ \E i \in 1..Len(last.messages) : last.messages[i].role = "assistant"
    /\ conversation_history =
          <<Msg("user", last.text), Msg("assistant", last.env.reply)>>

----------------------------------------------------------------------------
(* The history sent to a backend *)

\* the messages between the system messages and the new user turn
HistoryPart(messages) ==
    LET lead == Cardinality({ i \in 1..Len(messages) :
                                messages[i].role = "system" })
    IN  SubSeq(messages, lead + 1, Len(messages) - 1)

IsSuffix(part, s) ==
    /\ Len(part) <= Len(s)
    /\ part = From(s, Len(s) - Len(part) + 1)

\* C36: for every window size N >= 1 and every reachable history, the
\* history part of the message list sent to a backend is a trailing window
\* of whole exchanges: it starts with a user message and alternates user,
\* assistant up to the new user turn
C36_WindowOfWholeExchanges ==
    [][ last'.backend \in {"ollama", "cloud"} /\ context_window >= 1 =>
          /\ IsSuffix(HistoryPart(last'.messages), conversation_history)
          /\ Exchanges(HistoryPart(last'.messages))
          /\ last'.messages[Len(last'.messages)] =
                Msg("user", UserInputOf(last'))
      ]_vars

\* the history part is the last context_window messages of the history
WindowOfMessages ==
    [][ last'.backend \in {"ollama", "cloud"} =>
          /\ IsSuffix(HistoryPart(last'.messages), conversation_history)
          /\ \/ HistoryPart(last'.messages) = conversation_history
             \/ /\ context_window >= 1
                /\ Len(HistoryPart(last'.messages)) = context_window
          /\ last'.messages[Len(last'.messages)] =
                Msg("user", UserInputOf(last'))
      ]_vars

----------------------------------------------------------------------------
(* is_available and generate_response *)

\* C37: generate_response sends a request to a backend only in states where
\* is_available() is true; in particular, when enable_llm is false it
\* contacts no backend and answers from the keyword table
C37_BackendOnlyWhenAvailable ==
    last.op = "generate_response" =>
        /\ last.backend \in {"ollama", "cloud"} => is_available(last.env)
        /\ ~enable_llm =>
              /\ last.backend = "none"
              /\ last.result = generate_fallback_response(last.text)

\* the same for an engine that is switched on
BackendOnlyWhenAvailableIfEnabled ==
    last.op = "generate_response" /\ enable_llm =>
        (last.backend \in {"ollama", "cloud"} <=> is_available(last.env))

----------------------------------------------------------------------------
(* The no_command response *)

\* no configured wake phrase has leading or trailing whitespace
WakePhrasesAreTrimmed ==
    \A i \in 1..Len(wake_words) : Strip(wake_words[i]) = wake_words[i]

\* C38: when no configured wake phrase has leading or trailing whitespace,
\* every normalized text that starts with a wake phrase and is not a bare
\* wake call leaves a non-empty command once the prefix is stripped, so
\* process_command never returns the no_command template
C38_NoCommandUnreachable ==
    WakePhrasesAreTrimmed /\ last.op = "process_command" =>
        /\ last.gate # "no_command"
        /\ last.result # get_response("no_command")
        /\ (/\ last.text # <<>>
            /\ starts_with_wake_word(Normalize(last.text))
            /\ ~is_wake_word_call(Normalize(last.text)))
           => extract_command(Normalize(last.text)) # <<>>

\* the wake phrase, whitespace and a command: the command is what is routed
C38_Witness ==
    /\ WakePhrasesAreTrimmed
    /\ last.op = "process_command"
    /\ last.text = <<"yuki_th", SP, SP, "x">>
    /\ last.gate = "routed"
    /\ extract_command(Normalize(last.text)) = <<"x">>

----------------------------------------------------------------------------
(* Unknown action tags *)

\* the tags _execute_action knows by name
BuiltInTags == {"time", "greeting", "name", "weather", "shutdown"}

\* C39: an action tag of the pattern table that is neither a built-in tag
\* (time, greeting, name, weather, shutdown) nor a key of the tag-to-URL
\* table causes no side effect: an unknown open_* tag is answered with an
\* apology naming the tag and no URL is opened, any other unknown tag is
\* returned as the response
C39_UnknownTagHasNoEffect ==
    (/\ last.op = "process_command"
     /\ last.stage = "pattern"
     /\ action_of(commands, CommandOf(last))
            \notin BuiltInTags \cup DOMAIN web_actions) =>
        LET action == action_of(commands, CommandOf(last))
        IN  /\ last.effects = <<>>
            /\ last.status = "returned"
            /\ last.backend = "-"
            /\ last.result =
                  IF starts_with_open(action)
                  THEN <<"kho_aphai_kha", SP, "mai_samat", "poet", SP, action,
                         SP, "dai">>
                  ELSE <<action>>

\* the tag open_maps, which has no URL, was answered with the apology
C39_Witness ==
    /\ last.op = "process_command"
    /\ last.stage = "pattern"
    /\ action_of(commands, CommandOf(last)) = "open_maps"
    /\ last.effects = <<>>
    /\ last.result = <<"kho_aphai_kha", SP, "mai_samat", "poet", SP,
                       "open_maps", SP, "dai">>

----------------------------------------------------------------------------
(* The persisted counter of test.py *)

\* the answers main() has given to the bare name, in order
RECURSIVE BareNameAnswers(_)
BareNameAnswers(calls) ==
    IF calls = <<>> THEN <<>>
    ELSE IF IsBareName(Head(calls).text)
         THEN <<Head(calls).response>> \o BareNameAnswers(Tail(calls))
         ELSE BareNameAnswers(Tail(calls))

\* the answer to the k-th call of a cycle of six that starts with the
\* first acknowledgement and ends with the scolding reply
CycleFromFirst(k) ==
    IF k % 6 = 0 THEN wake_scolding ELSE yuki_responses[k % 6]

\* the answer to the k-th call of the cycle the counter arithmetic gives:
\* the second acknowledgement first, the scolding reply fifth, the first
\* acknowledgement sixth
CycleFromSecond(k) ==
    IF k % 6 = 5 THEN wake_scolding ELSE yuki_responses[(k % 6) + 1]

\* C40: with no counter file at the start, consecutive calls of the bare
\* name are answered with the five acknowledgements in list order, the
\* first one on the first call, then with the scolding reply on the sixth
\* call, and the cycle then starts again with the first acknowledgement
C40_CycleStartsWithFirst ==
    \A k \in 1..Len(BareNameAnswers(spoken)) :
        BareNameAnswers(spoken)[k] = CycleFromFirst(k)

\* what the code does instead: the same cycle entered at its second place,
\* whatever else is said in between
CycleStartsWithSecond ==
    /\ \A k \in 1..Len(BareNameAnswers(spoken)) :
          BareNameAnswers(spoken)[k] = CycleFromSecond(k)
    /\ yuki_call_count_json =
          IF BareNameAnswers(spoken) = <<>> THEN <<>>
          ELSE <<Len(BareNameAnswers(spoken)) % 6>>

====
